---------------------------- MODULE Spec2Model ----------------------------
(***************************************************************************)
(* Warm-transfer backend: the Room Registry (services/room_manager.py),    *)
(* the Transfer Coordinator (services/transfer_service.py) and the request *)
(* handlers and WebSocket connection manager of main.py.                   *)
(*                                                                         *)
(* Python dicts are modelled as sequences of <<key, value>> pairs in       *)
(* insertion order, lists as sequences, objects as records.  Every handler *)
(* is one action; the outcome of each call to the external room provider   *)
(* and to the generation provider is an input of the action.               *)
(***************************************************************************)
EXTENDS Integers, Sequences, FiniteSets, TLC

VARIABLES
    env,               \* process configuration: LIVEKIT_AVAILABLE, credentials, OpenAI key
    rm,                \* the RoomManager object
    provider_rooms,    \* rooms that exist at the external room provider
    active_transfers,  \* TransferService.active_transfers
    uuid_count,        \* how many uuid4() values have been drawn
    now,               \* datetime.now(), in seconds
    call,              \* the last call made to a service and how it ended
    manager,           \* the ConnectionManager object of main.py
    endpoints,         \* the room of each running websocket_endpoint handler
    sent,              \* the send_text calls of the last request handled
    run                \* the initiate_transfer coroutine under way, if any

vars == <<env, rm, provider_rooms, active_transfers, uuid_count, now, call, manager, endpoints, sent, run>>

-----------------------------------------------------------------------------
(* Bounds of the model *)

MaxParts == 2        \* longest participant list of one room
MaxHist == 2         \* longest conversation history of one room
MaxTransfers == 1    \* transfer ids handed out
MaxNow == 3601       \* latest clock reading, in seconds
MaxMsgs == 2         \* longest history handed to the summary directly
MaxCopied == 4       \* longest history the copy loop of a transfer is followed to

None == "None"

-----------------------------------------------------------------------------
(* Python dict, in insertion order *)

RECURSIVE DictIndex(_, _, _)
DictIndex(d, k, i) ==
    IF i > Len(d) THEN 0
    ELSE IF d[i][1] = k THEN i ELSE DictIndex(d, k, i + 1)

Has(d, k) == DictIndex(d, k, 1) # 0

Get(d, k) == d[DictIndex(d, k, 1)][2]

GetOr(d, k, default) == IF Has(d, k) THEN Get(d, k) ELSE default

Put(d, k, v) ==
    IF Has(d, k)
    THEN [d EXCEPT ![DictIndex(d, k, 1)] = <<k, v>>]
    ELSE Append(d, <<k, v>>)

Keys(d) == [i \in 1..Len(d) |-> d[i][1]]

Values(d) == [i \in 1..Len(d) |-> d[i][2]]

KeySet(d) == {d[i][1] : i \in 1..Len(d)}

RECURSIVE Del(_, _)
Del(d, k) ==
    IF d = << >> THEN << >>
    ELSE IF Head(d)[1] = k THEN Tail(d) ELSE <<Head(d)>> \o Del(Tail(d), k)

-----------------------------------------------------------------------------
(* The values the handlers are called with *)

Rooms == {"roomA", "roomB"}

Agents == {"Alice", "Bob"}

Callers == {"Caller1"}

Names == Agents \cup Callers

Speakers == {"Caller", "Agent"}

Texts == {"My order is late"}

Statuses == {"initiated", "in_progress", "completed", "failed", "cancelled"}

Terminal == {"completed", "failed", "cancelled"}

\* update_transfer_progress takes any string
ProgressValues == Statuses \cup {"ringing"}

\* the ids uuid4() hands out, and one it never hands out
TransferIds == 1..(MaxTransfers + 1)

\* how a call to a remote provider ends
Outcomes == {"ok", "error"}

\* what the process finds at import: LIVEKIT_AVAILABLE (the import
\* succeeded), the three LIVEKIT_* settings, OPENAI_API_KEY, and which of the
\* module-level services of main.py were constructed (the others are None)
Env(livekit_available, livekit_configured, openai, room_manager, llm_service, twilio_service) ==
    [livekit_available |-> livekit_available, livekit_configured |-> livekit_configured,
     openai |-> openai, room_manager |-> room_manager, llm_service |-> llm_service,
     twilio_service |-> twilio_service]

Envs ==
    { Env(TRUE, TRUE, FALSE, TRUE, TRUE, FALSE),
      Env(TRUE, FALSE, FALSE, TRUE, TRUE, FALSE),
      Env(FALSE, FALSE, FALSE, TRUE, TRUE, FALSE) }

-----------------------------------------------------------------------------
(* RoomManager *)

\* datetime.isoformat() and datetime.fromisoformat()
IsoFormat(t) == <<"iso", t>>

FromIsoFormat(x) == x[2]

ParticipantInfo(participant_name, is_agent, t) ==
    [identity |-> participant_name, name |-> participant_name,
     is_agent |-> is_agent, joined_at |-> t]

\* RoomManager.__init__: every branch leaves livekit_api None and the three
\* dicts empty
RoomManagerInit ==
    [livekit_api |-> FALSE, active_rooms |-> << >>,
     room_participants |-> << >>, conversation_history |-> << >>]

\* the result of a call: the manager and the provider afterwards, and the
\* exception raised ("none" when the call returned)
Result(m, prov, err) == [m |-> m, prov |-> prov, err |-> err]

\* _get_livekit_api: the client is built on first use; the client library
\* refuses to be built without url, key and secret
get_livekit_api(m) ==
    IF m.livekit_api THEN [m |-> m, err |-> "none"]
    ELSE IF env.livekit_configured
         THEN [m |-> [m EXCEPT !.livekit_api = TRUE], err |-> "none"]
         ELSE [m |-> m, err |-> "ValueError: not configured"]

AppendParticipant(m, room_name, p) ==
    [m EXCEPT !.room_participants =
        Put(@, room_name, Append(GetOr(@, room_name, << >>), p))]

\* api.VideoGrants: a field is TRUE when the code sets it to True and FALSE
\* (room: "") when the code leaves it to the library's default
VideoGrants(room_join, room, can_publish, can_subscribe, can_publish_data, room_admin, can_update_own_metadata) ==
    [room_join |-> room_join, room |-> room, can_publish |-> can_publish,
     can_subscribe |-> can_subscribe, can_publish_data |-> can_publish_data,
     room_admin |-> room_admin, can_update_own_metadata |-> can_update_own_metadata]

\* api.AccessToken with with_identity and with_name applied; no grants yet
AccessToken(participant_name) ==
    [identity |-> participant_name, name |-> participant_name,
     grants |-> VideoGrants(FALSE, "", FALSE, FALSE, FALSE, FALSE, FALSE)]

\* AccessToken.with_grants stores the grants object it is given in place of
\* the one it held
with_grants(token, grants) == [token EXCEPT !.grants = grants]

\* the token create_room signs: one grants object, widened for an agent
\* before it is attached
create_room_token(room_name, participant_name, is_agent) ==
    LET grants == VideoGrants(TRUE, room_name, TRUE, TRUE, TRUE, FALSE, FALSE)
        widened == [grants EXCEPT !.room_admin = TRUE,
                                  !.can_update_own_metadata = TRUE]
    IN with_grants(AccessToken(participant_name),
                   IF is_agent THEN widened ELSE grants)

\* the token join_room signs: for an agent with_grants is called a second
\* time, with a grants object that names only the two agent rights
join_room_token(room_name, participant_name, is_agent) ==
    LET token == with_grants(AccessToken(participant_name),
                             VideoGrants(TRUE, room_name, TRUE, TRUE, TRUE, FALSE, FALSE))
    IN IF is_agent
       THEN with_grants(token, VideoGrants(FALSE, "", FALSE, FALSE, FALSE, TRUE, TRUE))
       ELSE token

RoomInfo(room_name, token, participant_name, is_agent, t) ==
    [room_name |-> room_name, token |-> token, participant_name |-> participant_name,
     is_agent |-> is_agent, created_at |-> t]

create_room(m, prov, room_name, participant_name, is_agent, t, out) ==
    IF ~env.livekit_available
    THEN Result(m, prov, "RuntimeError: LiveKit is not available")
    ELSE LET g == get_livekit_api(m) IN
         IF g.err # "none" THEN Result(m, prov, g.err)
         ELSE LET \* any exception of the provider's create_room is only logged
                  prov1 == IF out = "ok" THEN prov \cup {room_name} ELSE prov
                  m1 == [g.m EXCEPT !.active_rooms =
                            Put(@, room_name, [created_at |-> t, participants |-> << >>])]
                  m2 == AppendParticipant(m1, room_name,
                                          ParticipantInfo(participant_name, is_agent, t))
              IN Result(m2, prov1, "none")

\* join_room falling back to creating a room the provider does not list
join_room_creating(m, prov, room_name, participant_name, is_agent, t, out) ==
    IF ~m.livekit_api
    THEN Result(m, prov, "AttributeError: livekit_api is None")
    ELSE IF out # "ok"
    THEN Result(m, prov, "ProviderError")
    ELSE Result(AppendParticipant(m, room_name,
                                  ParticipantInfo(participant_name, is_agent, t)),
                prov \cup {room_name}, "none")

join_room(m, prov, room_name, participant_name, is_agent, t, out) ==
    IF ~m.livekit_api
    THEN Result(m, prov, "AttributeError: livekit_api is None")
    ELSE IF out # "ok"
    THEN Result(m, prov, "ProviderError")
    ELSE IF room_name \notin prov
    THEN Result(m, prov, "ValueError: room does not exist")
    ELSE Result(AppendParticipant(m, room_name,
                                  ParticipantInfo(participant_name, is_agent, t)),
                prov, "none")

get_room_conversation_history(m, room_name) ==
    GetOr(m.conversation_history, room_name, << >>)

Message(speaker, message, t) ==
    [speaker |-> speaker, message |-> message, timestamp |-> t]

\* insert(0, ...) in place of append
add_conversation_message_front(m, room_name, speaker, message, t) ==
    [m EXCEPT !.conversation_history =
        Put(@, room_name,
            <<Message(speaker, message, IsoFormat(t))>> \o GetOr(@, room_name, << >>))]

add_conversation_message(m, room_name, speaker, message, t) ==
    [m EXCEPT !.conversation_history =
        Put(@, room_name,
            Append(GetOr(@, room_name, << >>), Message(speaker, message, IsoFormat(t))))]

clear_conversation_history(m, room_name) ==
    IF Has(m.conversation_history, room_name)
    THEN [m EXCEPT !.conversation_history = Put(@, room_name, << >>)]
    ELSE m

WithoutIdentity(participants, participant_name) ==
    SelectSeq(participants, LAMBDA p : p.identity # participant_name)

remove_participant(m, prov, room_name, participant_name, out) ==
    IF ~env.livekit_available
    THEN Result(m, prov, "none")
    ELSE LET g == get_livekit_api(m) IN
         IF g.err # "none" THEN Result(m, prov, g.err)
         ELSE IF out # "ok" THEN Result(g.m, prov, "ProviderError")
         ELSE IF Has(g.m.room_participants, room_name)
         THEN Result([g.m EXCEPT !.room_participants =
                         Put(@, room_name,
                             WithoutIdentity(Get(@, room_name), participant_name))],
                     prov, "none")
         ELSE Result(g.m, prov, "none")

-----------------------------------------------------------------------------
(* Strings the code takes apart: a room name as its characters *)

AgentRoomPrefix == <<"a", "g", "e", "n", "t", "-", "r", "o", "o", "m", "-">>

AgentRooms == {"agent-room-bob", "agent-room-BOB", "agent-room-al-b"}

AllRooms == Rooms \cup AgentRooms

\* a text longer than the 100 characters a summary part keeps: 100 times x,
\* then yyy
LongText == "xxxxxxxxxxxxxxxxxxxxxxxxxxxxxxxxxxxxxxxxxxxxxxxxxxxxxxxxxxxxxxxxxxxxxxxxxxxxxxxxxxxxxxxxxxxxxxxxxxxxyyy"

\* the characters of the strings the code takes apart
Chars(room_name) ==
    CASE room_name = "" -> << >>
      [] room_name = "My order is late" -> <<"M", "y", " ", "o", "r", "d", "e", "r", " ", "i", "s", " ", "l", "a", "t", "e">>
      [] room_name = "Let me check" -> <<"L", "e", "t", " ", "m", "e", " ", "c", "h", "e", "c", "k">>
      [] room_name = LongText -> [i \in 1..103 |-> IF i <= 100 THEN "x" ELSE "y"]
      [] room_name = "Caller" -> <<"C", "a", "l", "l", "e", "r">>
      [] room_name = "Agent" -> <<"A", "g", "e", "n", "t">>
      [] room_name = "AGENT" -> <<"A", "G", "E", "N", "T">>
      [] room_name = "agent" -> <<"a", "g", "e", "n", "t">>
      [] room_name = "agent-room-bob" -> AgentRoomPrefix \o <<"b", "o", "b">>
      [] room_name = "agent-room-BOB" -> AgentRoomPrefix \o <<"B", "O", "B">>
      [] room_name = "agent-room-al-b" -> AgentRoomPrefix \o <<"a", "l", "-", "b">>
      [] room_name = "roomA" -> <<"r", "o", "o", "m", "A">>
      [] room_name = "roomB" -> <<"r", "o", "o", "m", "B">>

LowerLetters == <<"a", "b", "c", "e", "g", "l", "m", "n", "o", "r", "t">>

UpperLetters == <<"A", "B", "C", "E", "G", "L", "M", "N", "O", "R", "T">>

LetterIndex(letters, c) ==
    IF \E i \in 1..Len(letters) : letters[i] = c
    THEN CHOOSE i \in 1..Len(letters) : letters[i] = c
    ELSE 0

IsLower(c) == LetterIndex(LowerLetters, c) # 0

IsUpper(c) == LetterIndex(UpperLetters, c) # 0

ToUpper(c) == IF IsLower(c) THEN UpperLetters[LetterIndex(LowerLetters, c)] ELSE c

ToLower(c) == IF IsUpper(c) THEN LowerLetters[LetterIndex(UpperLetters, c)] ELSE c

\* the code point of a character, for the order sorted() uses
Ord(c) ==
    CASE c = " " -> 32
      [] c = "-" -> 45
      [] IsUpper(c) -> 64 + LetterIndex(<<"A", "B", "C", "D", "E", "F", "G", "H", "I", "J", "K", "L", "M", "N", "O", "P", "Q", "R", "S", "T">>, c)
      [] IsLower(c) -> 96 + LetterIndex(<<"a", "b", "c", "d", "e", "f", "g", "h", "i", "j", "k", "l", "m", "n", "o", "p", "q", "r", "s", "t">>, c)

\* str.startswith
StartsWith(s, prefix) ==
    /\ Len(s) >= Len(prefix)
    /\ SubSeq(s, 1, Len(prefix)) = prefix

\* str.replace(old, new): every occurrence, left to right, not overlapping
RECURSIVE Replace(_, _, _)
Replace(s, old, new) ==
    IF s = << >> THEN << >>
    ELSE IF StartsWith(s, old)
         THEN new \o Replace(SubSeq(s, Len(old) + 1, Len(s)), old, new)
         ELSE <<Head(s)>> \o Replace(Tail(s), old, new)

\* str.title(): a cased character is upper-cased after an uncased one (or at
\* the start) and lower-cased after a cased one
RECURSIVE TitleFrom(_, _)
TitleFrom(s, previous_is_cased) ==
    IF s = << >> THEN << >>
    ELSE LET c == Head(s)
             cased == IsLower(c) \/ IsUpper(c)
             d == IF ~cased THEN c
                  ELSE IF previous_is_cased THEN ToLower(c) ELSE ToUpper(c)
         IN <<d>> \o TitleFrom(Tail(s), cased)

Title(s) == TitleFrom(s, FALSE)

\* str < str: by code point, a proper prefix first
RECURSIVE StrLess(_, _)
StrLess(a, b) ==
    IF b = << >> THEN FALSE
    ELSE IF a = << >> THEN TRUE
    ELSE IF Ord(Head(a)) # Ord(Head(b)) THEN Ord(Head(a)) < Ord(Head(b))
    ELSE StrLess(Tail(a), Tail(b))

\* sorted(list(set(xs)))
RECURSIVE SortedSet(_)
SortedSet(S) ==
    IF S = {} THEN << >>
    ELSE LET least == CHOOSE x \in S : \A y \in S \ {x} : StrLess(x, y)
         IN <<least>> \o SortedSet(S \ {least})

Elements(xs) == {xs[i] : i \in 1..Len(xs)}

AgentName(room_name) ==
    Title(Replace(Replace(Chars(room_name), AgentRoomPrefix, << >>), <<"-">>, <<" ">>))

\* lines 269-278: the pass over active_rooms
RECURSIVE AgentsOfActiveRooms(_, _)
AgentsOfActiveRooms(m, keys) ==
    IF keys = << >> THEN << >>
    ELSE LET room_name == Head(keys)
             listed ==
                 /\ StartsWith(Chars(room_name), AgentRoomPrefix)
                 /\ (Has(m.room_participants, room_name)
                        => Get(m.room_participants, room_name) # << >>)
         IN (IF listed THEN <<AgentName(room_name)>> ELSE << >>)
                \o AgentsOfActiveRooms(m, Tail(keys))

\* lines 280-284: the pass over room_participants
RECURSIVE AgentsOfParticipants(_, _, _)
AgentsOfParticipants(m, keys, available_agents) ==
    IF keys = << >> THEN available_agents
    ELSE LET room_name == Head(keys)
             add ==
                 /\ StartsWith(Chars(room_name), AgentRoomPrefix)
                 /\ Get(m.room_participants, room_name) # << >>
                 /\ AgentName(room_name) \notin Elements(available_agents)
         IN AgentsOfParticipants(m, Tail(keys),
                IF add THEN Append(available_agents, AgentName(room_name))
                ELSE available_agents)

\* the list before line 286 sorts it
AvailableAgentsUnsorted(m) ==
    AgentsOfParticipants(m, Keys(m.room_participants),
                         AgentsOfActiveRooms(m, Keys(m.active_rooms)))

\* line 286 left out
get_available_agents_no_sort(m) == AvailableAgentsUnsorted(m)

get_available_agents(m) == SortedSet(Elements(AvailableAgentsUnsorted(m)))

-----------------------------------------------------------------------------
(* Snapshot and restore *)

ParticipantData(p) ==
    <<<<"name", p.name>>, <<"is_agent", p.is_agent>>,
      <<"joined_at", IsoFormat(p.joined_at)>>>>

get_room_state(m, room_name) ==
    <<<<"room_info", GetOr(m.active_rooms, room_name, << >>)>>,
      <<"participants",
        [i \in 1..Len(GetOr(m.room_participants, room_name, << >>)) |->
            ParticipantData(Get(m.room_participants, room_name)[i])]>>,
      <<"conversation_history", GetOr(m.conversation_history, room_name, << >>)>>>>

\* a participant entry of a blob can be read when it has the three keys
WellFormed(p_data) ==
    /\ Has(p_data, "name")
    /\ Has(p_data, "is_agent")
    /\ Has(p_data, "joined_at")

ParticipantOfData(p_data) ==
    [identity |-> Get(p_data, "name"), name |-> Get(p_data, "name"),
     is_agent |-> Get(p_data, "is_agent"),
     joined_at |-> FromIsoFormat(Get(p_data, "joined_at"))]

\* the except clause of restore_room_state logs and returns: a KeyError raised
\* while the participants are rebuilt ends the restore where it stands
restore_room_state(m, room_name, state) ==
    LET m1 == IF Has(state, "room_info")
              THEN [m EXCEPT !.active_rooms = Put(@, room_name, Get(state, "room_info"))]
              ELSE m
        data == GetOr(state, "participants", << >>)
        readable == \A i \in 1..Len(data) : WellFormed(data[i])
        m2 == IF Has(state, "participants")
              THEN [m1 EXCEPT !.room_participants =
                       Put(@, room_name,
                           [i \in 1..Len(data) |-> ParticipantOfData(data[i])])]
              ELSE m1
        m3 == IF Has(state, "conversation_history")
              THEN [m2 EXCEPT !.conversation_history =
                       Put(@, room_name, Get(state, "conversation_history"))]
              ELSE m2
    IN IF Has(state, "participants") /\ ~readable THEN m1 ELSE m3

-----------------------------------------------------------------------------
(* LLMService *)

\* text[:limit]
Slice(chars, limit) ==
    [i \in 1..(IF Len(chars) < limit THEN Len(chars) ELSE limit) |-> chars[i]]

\* one entry of summary_parts: f"{label}: {text[:limit]}..."
SummaryPart(label, text, limit) == [label |-> label, text |-> Slice(Chars(text), limit)]

\* str.lower()
Lower(text) == [i \in 1..Len(Chars(text)) |-> ToLower(Chars(text)[i])]

\* dict.get(key, default) of a message
MsgGet(msg, key, default) == IF key \in DOMAIN msg THEN msg[key] ELSE default

\* _generate_fallback_summary reading agent_messages[0] where the code reads
\* agent_messages[-1]
generate_fallback_summary_first_agent(conversation_history) ==
    IF conversation_history = << >> THEN <<"No conversation history available.">>
    ELSE LET caller_messages == SelectSeq(conversation_history,
                                    LAMBDA msg : Lower(MsgGet(msg, "speaker", "")) # Chars("agent"))
             agent_messages == SelectSeq(conversation_history,
                                    LAMBDA msg : Lower(MsgGet(msg, "speaker", "")) = Chars("agent"))
         IN (IF caller_messages # << >>
             THEN <<SummaryPart("Caller's main concern",
                                MsgGet(caller_messages[1], "message", ""), 100)>>
             ELSE << >>)
            \o (IF agent_messages # << >>
                THEN <<SummaryPart("Agent's last response",
                                   MsgGet(agent_messages[1], "message", ""), 100)>>
                ELSE << >>)
            \o <<[label |-> "Total messages exchanged", count |-> Len(conversation_history)]>>

\* _generate_fallback_summary: the parts that " | ".join puts together
generate_fallback_summary(conversation_history) ==
    IF conversation_history = << >> THEN <<"No conversation history available.">>
    ELSE LET caller_messages == SelectSeq(conversation_history,
                                    LAMBDA msg : Lower(MsgGet(msg, "speaker", "")) # Chars("agent"))
             agent_messages == SelectSeq(conversation_history,
                                    LAMBDA msg : Lower(MsgGet(msg, "speaker", "")) = Chars("agent"))
         IN (IF caller_messages # << >>
             THEN <<SummaryPart("Caller's main concern",
                                MsgGet(caller_messages[1], "message", ""), 100)>>
             ELSE << >>)
            \o (IF agent_messages # << >>
                THEN <<SummaryPart("Agent's last response",
                                   MsgGet(agent_messages[Len(agent_messages)], "message", ""), 100)>>
                ELSE << >>)
            \o <<[label |-> "Total messages exchanged", count |-> Len(conversation_history)]>>

\* generate_call_summary that has no except clause around the OpenAI call
generate_call_summary_unguarded(conversation_history, out) ==
    IF ~env.openai THEN generate_fallback_summary(conversation_history)
    ELSE IF out = "ok" THEN <<"completion">>
    ELSE <<"openai.APIError">>

\* generate_call_summary: out is how the OpenAI call ends; the prompt is built
\* with dict.get and defaults, and every exception of the call is caught
generate_call_summary(conversation_history, out) ==
    IF ~env.openai THEN generate_fallback_summary(conversation_history)
    ELSE IF out = "ok" THEN <<"completion">>
    ELSE generate_fallback_summary(conversation_history)

-----------------------------------------------------------------------------
(* TransferService *)

TransferInfo(transfer_id, from_room, to_room, from_agent, to_agent, caller_name, summary, t) ==
    [transfer_id |-> transfer_id, from_room |-> from_room, to_room |-> to_room,
     from_agent |-> from_agent, to_agent |-> to_agent, caller_name |-> caller_name,
     summary |-> summary, status |-> "initiated", created_at |-> t,
     caller_token |-> None, destination_room |-> None, transfer_message |-> None]

\* the status written into a record made anew
SetStatusOfFreshRecord(transfers, transfer_id, status) ==
    Put(transfers, transfer_id,
        [TransferInfo(transfer_id, None, None, None, None, None, None, 0)
            EXCEPT !.status = status])

SetStatus(transfers, transfer_id, status) ==
    Put(transfers, transfer_id, [Get(transfers, transfer_id) EXCEPT !.status = status])

\* what a TransferService call leaves behind: the manager, the provider, the
\* transfer map, the exception raised ("none": the call returned) and the value
\* returned
Outcome(m, prov, transfers, err, value) ==
    [m |-> m, prov |-> prov, transfers |-> transfers, err |-> err, value |-> value]

\* _setup_destination_room: join, and on any exception create
setup_destination_room(m, prov, room_name, agent_name, t, outs) ==
    LET joined == join_room(m, prov, room_name, agent_name, TRUE, t, outs.join_agent)
    IN IF joined.err = "none" THEN joined
       ELSE create_room(joined.m, joined.prov, room_name, agent_name, TRUE, t, outs.create)

\* the messages copied last to first
RECURSIVE CopyHistoryReversed(_, _, _, _)
CopyHistoryReversed(m, to_room, messages, t) ==
    IF messages = << >> THEN m
    ELSE add_conversation_message(CopyHistoryReversed(m, to_room, Tail(messages), t),
                                  to_room, Head(messages).speaker, Head(messages).message, t)

\* lines 109-112: every message of the source room is appended to the
\* destination room
RECURSIVE CopyHistory(_, _, _, _)
CopyHistory(m, to_room, messages, t) ==
    IF messages = << >> THEN m
    ELSE CopyHistory(add_conversation_message(m, to_room, Head(messages).speaker,
                                              Head(messages).message, t),
                     to_room, Tail(messages), t)

\* the caller joins the destination room and is never taken out of the source room
move_caller_keeping_source(m, prov, from_room, to_room, caller_name, t, outs) ==
    LET joined == join_room(m, prov, to_room, caller_name, FALSE, t, outs.join_caller)
    IN IF joined.err # "none" THEN joined
       ELSE Result(CopyHistory(joined.m, to_room,
                               get_room_conversation_history(joined.m, from_room), t),
                   joined.prov, "none")

\* _move_caller_to_destination_room
move_caller_to_destination_room(m, prov, from_room, to_room, caller_name, t, outs) ==
    LET removed == remove_participant(m, prov, from_room, caller_name, outs.remove)
        joined == join_room(removed.m, removed.prov, to_room, caller_name, FALSE, t,
                            outs.join_caller)
    IN IF removed.err # "none" THEN removed
       ELSE IF joined.err # "none" THEN joined
       ELSE Result(CopyHistory(joined.m, to_room,
                               get_room_conversation_history(joined.m, from_room), t),
                   joined.prov, "none")

\* The loop of lines 111-112 walks the list object the registry holds: with
\* from_room = to_room and a history that is not empty every append lengthens
\* the list being walked, and the call does not come back.
CopyDiverges(m, from_room, to_room) ==
    /\ from_room = to_room
    /\ get_room_conversation_history(m, from_room) # << >>

initiate_transfer(m, prov, transfers, transfer_id, from_room, to_room, from_agent, to_agent, caller_name, t, outs) ==
    LET conversation_history == get_room_conversation_history(m, from_room)
        summary == generate_call_summary(conversation_history, outs.llm)
        transfer_info == TransferInfo(transfer_id, from_room, to_room, from_agent,
                                      to_agent, caller_name, summary, t)
        stored == Put(transfers, transfer_id, transfer_info)
        setup == setup_destination_room(m, prov, to_room, to_agent, t, outs)
        moved == move_caller_to_destination_room(setup.m, setup.prov, from_room,
                                                 to_room, caller_name, t, outs)
    IN IF setup.err # "none"
       THEN Outcome(setup.m, setup.prov, stored, setup.err, None)
       ELSE IF moved.err # "none"
       THEN Outcome(moved.m, moved.prov, stored, moved.err, None)
       ELSE Outcome(moved.m, moved.prov,
                    SetStatus(stored, transfer_id, "in_progress"), "none", transfer_id)

\* whether initiate_transfer reaches its copy loop
ReachesCopy(m, prov, from_room, to_room, to_agent, caller_name, t, outs) ==
    LET setup == setup_destination_room(m, prov, to_room, to_agent, t, outs)
        removed == remove_participant(setup.m, setup.prov, from_room, caller_name,
                                      outs.remove)
        joined == join_room(removed.m, removed.prov, to_room, caller_name, FALSE, t,
                            outs.join_caller)
    IN setup.err = "none" /\ removed.err = "none" /\ joined.err = "none"

Receipt(transfer_id, from_room, to_room, t, summary) ==
    [transfer_id |-> transfer_id, status |-> "completed", from_room |-> from_room,
     to_room |-> to_room, completed_at |-> IsoFormat(t), summary |-> summary]

\* the except clause without its membership test: the id is filed as failed
MarkFailedUnguarded(transfers, transfer_id) ==
    Put(transfers, transfer_id,
        [TransferInfo(transfer_id, None, None, None, None, None, None, 0)
            EXCEPT !.status = "failed"])

\* the except clause of lines 154-159
MarkFailed(transfers, transfer_id) ==
    IF Has(transfers, transfer_id) THEN SetStatus(transfers, transfer_id, "failed")
    ELSE transfers

\* a removal that raises is logged and the completion goes on
complete_transfer_swallowing(m, prov, transfers, transfer_id, from_room, to_room, t, out) ==
    IF ~Has(transfers, transfer_id)
    THEN Outcome(m, prov, transfers, "ValueError: transfer not found", None)
    ELSE LET transfer_info == Get(transfers, transfer_id)
             removed == remove_participant(m, prov, from_room, transfer_info.from_agent, out)
         IN IF transfer_info.from_room # from_room \/ transfer_info.to_room # to_room
            THEN Outcome(m, prov, MarkFailed(transfers, transfer_id),
                         "ValueError: Transfer room mismatch", None)
            ELSE Outcome(removed.m, removed.prov,
                         SetStatus(transfers, transfer_id, "completed"), "none",
                         Receipt(transfer_id, from_room, to_room, t, transfer_info.summary))

complete_transfer(m, prov, transfers, transfer_id, from_room, to_room, t, out) ==
    IF ~Has(transfers, transfer_id)
    THEN Outcome(m, prov, MarkFailed(transfers, transfer_id),
                 "ValueError: transfer not found", None)
    ELSE LET transfer_info == Get(transfers, transfer_id)
             removed == remove_participant(m, prov, from_room, transfer_info.from_agent, out)
         IN IF transfer_info.from_room # from_room \/ transfer_info.to_room # to_room
            THEN Outcome(m, prov, MarkFailed(transfers, transfer_id),
                         "ValueError: Transfer room mismatch", None)
            ELSE IF removed.err # "none"
            THEN Outcome(removed.m, removed.prov, MarkFailed(transfers, transfer_id),
                         removed.err, None)
            ELSE Outcome(removed.m, removed.prov,
                         SetStatus(transfers, transfer_id, "completed"), "none",
                         Receipt(transfer_id, from_room, to_room, t, transfer_info.summary))

\* the records still in their first status only
list_active_transfers_initiated_only(transfers) ==
    SelectSeq(transfers, LAMBDA item : item[2].status = "initiated")

list_active_transfers(transfers) ==
    SelectSeq(transfers, LAMBDA item : item[2].status \in {"initiated", "in_progress"})

\* the status check of lines 180-181 left out
cancel_transfer_unchecked(m, prov, transfers, transfer_id, t) ==
    IF ~Has(transfers, transfer_id)
    THEN Outcome(m, prov, transfers, "ValueError: transfer not found", None)
    ELSE Outcome(m, prov, SetStatus(transfers, transfer_id, "cancelled"), "none",
                 [transfer_id |-> transfer_id, status |-> "cancelled",
                  cancelled_at |-> IsoFormat(t)])

cancel_transfer(m, prov, transfers, transfer_id, t) ==
    IF ~Has(transfers, transfer_id)
    THEN Outcome(m, prov, transfers, "ValueError: transfer not found", None)
    ELSE IF Get(transfers, transfer_id).status \notin {"initiated", "in_progress"}
    THEN Outcome(m, prov, transfers, "ValueError: Cannot cancel transfer in status", None)
    ELSE Outcome(m, prov, SetStatus(transfers, transfer_id, "cancelled"), "none",
                 [transfer_id |-> transfer_id, status |-> "cancelled",
                  cancelled_at |-> IsoFormat(t)])

update_transfer_progress(transfers, transfer_id, progress) ==
    IF Has(transfers, transfer_id) THEN SetStatus(transfers, transfer_id, progress)
    ELSE transfers

\* the retention window of line 217, in seconds
RetentionSeconds == 3600

\* lines 214-218: the ids of the terminal records older than the window
TransfersToRemove(transfers, current_time) ==
    SelectSeq(Keys(transfers),
              LAMBDA transfer_id :
                  /\ Get(transfers, transfer_id).status \in {"completed", "failed", "cancelled"}
                  /\ current_time - Get(transfers, transfer_id).created_at > RetentionSeconds)

\* lines 220-221
RECURSIVE DelAll(_, _)
DelAll(transfers, transfers_to_remove) ==
    IF transfers_to_remove = << >> THEN transfers
    ELSE DelAll(Del(transfers, Head(transfers_to_remove)), Tail(transfers_to_remove))

\* the sweep without the status test of line 215
cleanup_any_status(transfers, current_time) ==
    DelAll(transfers,
           SelectSeq(Keys(transfers),
                     LAMBDA transfer_id :
                         current_time - Get(transfers, transfer_id).created_at > RetentionSeconds))

cleanup_completed_transfers(transfers, current_time) ==
    DelAll(transfers, TransfersToRemove(transfers, current_time))

\* a / b of two ints: a float, here the exact quotient as a fraction; a
\* division by zero raises ZeroDivisionError
Divide(a, b) ==
    IF b = 0 THEN [raised |-> "ZeroDivisionError"] ELSE [num |-> a, den |-> b]

Raised(q) == "raised" \in DOMAIN q

Times(q, k) ==
    IF Raised(q) THEN q ELSE [num |-> q.num * k, den |-> q.den]

CountStatus(transfers, statuses) ==
    Len(SelectSeq(Values(transfers), LAMBDA t : t.status \in statuses))

Statistics(total, active, completed, failed, success_rate) ==
    IF Raised(success_rate)
    THEN [err |-> success_rate.raised, value |-> None]
    ELSE [err |-> "none",
          value |-> [total_transfers |-> total, active_transfers |-> active,
                     completed_transfers |-> completed, failed_transfers |-> failed,
                     success_rate |-> success_rate]]

\* the rate computed without the test total_transfers > 0
get_transfer_statistics_unguarded(transfers) ==
    Statistics(Len(transfers),
               CountStatus(transfers, {"initiated", "in_progress"}),
               CountStatus(transfers, {"completed"}),
               CountStatus(transfers, {"failed"}),
               Times(Divide(CountStatus(transfers, {"completed"}), Len(transfers)), 100))

\* cancelled records counted as failed ones
get_transfer_statistics_miscounting(transfers) ==
    Statistics(Len(transfers),
               CountStatus(transfers, {"initiated", "in_progress"}),
               CountStatus(transfers, {"completed"}),
               CountStatus(transfers, {"failed", "cancelled"}),
               IF Len(transfers) > 0
               THEN Times(Divide(CountStatus(transfers, {"completed"}), Len(transfers)), 100)
               ELSE [num |-> 0, den |-> 1])

get_transfer_statistics(transfers) ==
    Statistics(Len(transfers),
               CountStatus(transfers, {"initiated", "in_progress"}),
               CountStatus(transfers, {"completed"}),
               CountStatus(transfers, {"failed"}),
               IF Len(transfers) > 0
               THEN Times(Divide(CountStatus(transfers, {"completed"}), Len(transfers)), 100)
               ELSE [num |-> 0, den |-> 1])

-----------------------------------------------------------------------------
(* main.py: ConnectionManager and the handlers that use it *)

\* the WebSocket objects of the connections clients open
WebSockets == {"ws1", "ws2", "ws3"}

\* what a client sends over its socket
Data == {"hello"}

ConnectionManagerInit == [active_connections |-> << >>]

\* ConnectionManager.connect, after websocket.accept() returned
connect(mgr, websocket, room_name) ==
    [mgr EXCEPT !.active_connections =
        Put(@, room_name, Append(GetOr(@, room_name, << >>), websocket))]

\* list.remove: the first equal element goes
RECURSIVE ListRemove(_, _)
ListRemove(list, x) ==
    IF list = << >> THEN << >>
    ELSE IF Head(list) = x THEN Tail(list)
    ELSE <<Head(list)>> \o ListRemove(Tail(list), x)

InList(list, x) == \E i \in 1..Len(list) : list[i] = x

\* ConnectionManager.disconnect
disconnect(mgr, websocket, room_name) ==
    IF ~Has(mgr.active_connections, room_name) THEN mgr
    ELSE IF ~InList(Get(mgr.active_connections, room_name), websocket) THEN mgr
    ELSE LET rest == ListRemove(Get(mgr.active_connections, room_name), websocket)
         IN IF rest = << >>
            THEN [mgr EXCEPT !.active_connections = Del(@, room_name)]
            ELSE [mgr EXCEPT !.active_connections = Put(@, room_name, rest)]

RECURSIVE DisconnectAll(_, _, _)
DisconnectAll(mgr, disconnected, room_name) ==
    IF disconnected = << >> THEN mgr
    ELSE DisconnectAll(disconnect(mgr, Head(disconnected), room_name),
                       Tail(disconnected), room_name)

\* one send_text call and how it ended
Send(websocket, message, out) == [to |-> websocket, frame |-> message, out |-> out]

\* what a broadcast leaves behind: the manager and the send_text calls made
Broadcast(mgr, sends) == [manager |-> mgr, sent |-> sends]

\* the listeners whose send failed are kept registered
broadcast_to_room_keeping_broken(mgr, message, room_name, outs) ==
    IF ~Has(mgr.active_connections, room_name) THEN Broadcast(mgr, << >>)
    ELSE LET connections == Get(mgr.active_connections, room_name)
         IN Broadcast(mgr, [i \in 1..Len(connections) |->
                               Send(connections[i], message, outs[connections[i]])])

\* ConnectionManager.broadcast_to_room; outs tells how the send_text call on
\* each socket ends
broadcast_to_room(mgr, message, room_name, outs) ==
    IF ~Has(mgr.active_connections, room_name) THEN Broadcast(mgr, << >>)
    ELSE LET connections == Get(mgr.active_connections, room_name)
             disconnected == SelectSeq(connections, LAMBDA c : outs[c] # "ok")
         IN Broadcast(DisconnectAll(mgr, disconnected, room_name),
                      [i \in 1..Len(connections) |->
                          Send(connections[i], message, outs[connections[i]])])

\* hasattr on a model object
HasAttr(object, name) == name \in DOMAIN object

\* the f-string of lines 178: str() of each field
TransferNotification(transfer_info) ==
    <<"TRANSFER_NOTIFICATION", transfer_info.caller_token,
      transfer_info.destination_room, transfer_info.transfer_id>>

RoomMessage(room_name, data) == <<"Room", room_name, data>>

\* how an HTTP handler answers
Response(status_code, body) == [status_code |-> status_code, body |-> body]

-----------------------------------------------------------------------------
(* The state machine *)

Participants(room_name) == GetOr(rm.room_participants, room_name, << >>)

History(room_name) == get_room_conversation_history(rm, room_name)

Called(op, args, err, value) == [op |-> op, args |-> args, err |-> err, value |-> value]

IsAgentName(participant_name) == participant_name \in Agents

\* the outcomes of the remote calls one initiate_transfer can make; without an
\* OpenAI client no completion is asked for
OutcomeVectors == [llm : IF env.openai THEN Outcomes ELSE {"ok"}, join_agent : Outcomes, create : Outcomes, remove : Outcomes, join_caller : Outcomes]

\* blobs handed to restore_room_state: a snapshot taken of some room, and
\* blobs that carry only some of the keys or a participant entry without its
\* is_agent key
RoomInfoBlob == <<<<"room_info", [created_at |-> 0, participants |-> << >>]>>>>

ParticipantsBlob ==
    <<<<"participants", <<ParticipantData(ParticipantInfo("Alice", TRUE, 0)),
                          ParticipantData(ParticipantInfo("Caller1", FALSE, 0)),
                          ParticipantData(ParticipantInfo("Alice", TRUE, 0))>>>>>>

HistoryBlob ==
    <<<<"conversation_history", <<Message("Caller", "My order is late", IsoFormat(0))>>>>>>

MalformedBlob ==
    <<<<"room_info", << >>>>,
      <<"participants", <<<<<<"name", "Bob">>, <<"joined_at", IsoFormat(0)>>>>>>>>,
      <<"conversation_history", << >>>>>>

BobBlob == <<<<"participants", <<ParticipantData(ParticipantInfo("Bob", TRUE, 0))>>>>>>

Snapshots(rooms) == {get_room_state(rm, r) : r \in rooms}

\* no initiate_transfer is under way
Idle == [pc |-> "idle"]

\* the services and the connection manager as they are constructed
Constructed ==
    /\ rm = RoomManagerInit
    /\ provider_rooms = {}
    /\ active_transfers = << >>
    /\ uuid_count = 0
    /\ now = 0
    /\ call = Called("init", << >>, "none", None)
    /\ manager = ConnectionManagerInit
    /\ endpoints = [websocket \in WebSockets |-> None]
    /\ sent = << >>
    /\ run = Idle

Init ==
    /\ env \in Envs
    /\ Constructed

\* a deployment with LiveKit set up, with or without OPENAI_API_KEY
InitLLM ==
    /\ env \in {Env(TRUE, TRUE, o, TRUE, TRUE, FALSE) : o \in BOOLEAN}
    /\ Constructed

\* a deployment with LiveKit set up in which the construction of any of the
\* services may have failed
InitApi ==
    /\ env \in {Env(TRUE, TRUE, FALSE, r, l, t) : r \in BOOLEAN, l \in BOOLEAN, t \in BOOLEAN}
    /\ Constructed

CreateRoom(room_name, participant_name, out) ==
    /\ Len(Participants(room_name)) < MaxParts
    /\ LET r == create_room(rm, provider_rooms, room_name, participant_name,
                            IsAgentName(participant_name), now, out)
       IN /\ rm' = r.m
          /\ provider_rooms' = r.prov
          /\ call' = Called("create_room", <<room_name, participant_name>>, r.err,
                            IF r.err = "none"
                            THEN RoomInfo(room_name,
                                          create_room_token(room_name, participant_name,
                                                            IsAgentName(participant_name)),
                                          participant_name, IsAgentName(participant_name), now)
                            ELSE None)
    /\ UNCHANGED <<run, manager, endpoints, sent, env, active_transfers, uuid_count, now>>

JoinRoom(room_name, participant_name, out) ==
    /\ Len(Participants(room_name)) < MaxParts
    /\ LET r == join_room(rm, provider_rooms, room_name, participant_name,
                          IsAgentName(participant_name), now, out)
       IN /\ rm' = r.m
          /\ provider_rooms' = r.prov
          /\ call' = Called("join_room", <<room_name, participant_name>>, r.err,
                            IF r.err = "none"
                            THEN RoomInfo(room_name,
                                          join_room_token(room_name, participant_name,
                                                          IsAgentName(participant_name)),
                                          participant_name, IsAgentName(participant_name), now)
                            ELSE None)
    /\ UNCHANGED <<run, manager, endpoints, sent, env, active_transfers, uuid_count, now>>

RemoveParticipant(room_name, participant_name, out) ==
    /\ LET r == remove_participant(rm, provider_rooms, room_name, participant_name, out)
       IN /\ rm' = r.m
          /\ provider_rooms' = r.prov
          /\ call' = Called("remove_participant", <<room_name, participant_name>>, r.err, None)
    /\ UNCHANGED <<run, manager, endpoints, sent, env, active_transfers, uuid_count, now>>

AddConversationMessage(room_name, speaker, message) ==
    /\ Len(History(room_name)) < MaxHist
    /\ rm' = add_conversation_message(rm, room_name, speaker, message, now)
    /\ call' = Called("add_conversation_message", <<room_name, speaker, message>>, "none", None)
    /\ UNCHANGED <<run, manager, endpoints, sent, env, provider_rooms, active_transfers, uuid_count, now>>

GetRoomConversationHistory(room_name) ==
    /\ call' = Called("get_room_conversation_history", <<room_name>>, "none",
                      get_room_conversation_history(rm, room_name))
    /\ UNCHANGED <<run, manager, endpoints, sent, env, rm, provider_rooms, active_transfers, uuid_count, now>>

ClearConversationHistory(room_name) ==
    /\ rm' = clear_conversation_history(rm, room_name)
    /\ call' = Called("clear_conversation_history", <<room_name>>, "none", None)
    /\ UNCHANGED <<run, manager, endpoints, sent, env, provider_rooms, active_transfers, uuid_count, now>>

RestoreRoomState(room_name, state) ==
    /\ rm' = restore_room_state(rm, room_name, state)
    /\ call' = Called("restore_room_state", <<room_name, state>>, "none", None)
    /\ UNCHANGED <<run, manager, endpoints, sent, env, provider_rooms, active_transfers, uuid_count, now>>

InitiateTransfer(from_room, to_room, from_agent, to_agent, caller_name, outs) ==
    /\ uuid_count < MaxTransfers
    /\ ~(/\ ReachesCopy(rm, provider_rooms, from_room, to_room, to_agent, caller_name, now, outs)
         /\ CopyDiverges(rm, from_room, to_room))
    /\ LET r == initiate_transfer(rm, provider_rooms, active_transfers, uuid_count + 1,
                                  from_room, to_room, from_agent, to_agent, caller_name,
                                  now, outs)
       IN /\ rm' = r.m
          /\ provider_rooms' = r.prov
          /\ active_transfers' = r.transfers
          /\ call' = Called("initiate_transfer",
                            <<from_room, to_room, from_agent, to_agent, caller_name>>,
                            r.err, r.value)
    /\ uuid_count' = uuid_count + 1
    /\ UNCHANGED <<run, manager, endpoints, sent, env, now>>

CompleteTransfer(transfer_id, from_room, to_room, out) ==
    /\ LET r == complete_transfer(rm, provider_rooms, active_transfers, transfer_id,
                                  from_room, to_room, now, out)
       IN /\ rm' = r.m
          /\ provider_rooms' = r.prov
          /\ active_transfers' = r.transfers
          /\ call' = Called("complete_transfer", <<transfer_id, from_room, to_room>>,
                            r.err, r.value)
    /\ UNCHANGED <<run, manager, endpoints, sent, env, uuid_count, now>>

CancelTransfer(transfer_id) ==
    /\ LET r == cancel_transfer(rm, provider_rooms, active_transfers, transfer_id, now)
       IN /\ active_transfers' = r.transfers
          /\ call' = Called("cancel_transfer", <<transfer_id>>, r.err, r.value)
    /\ UNCHANGED <<run, manager, endpoints, sent, env, rm, provider_rooms, uuid_count, now>>

UpdateTransferProgress(transfer_id, progress) ==
    /\ active_transfers' = update_transfer_progress(active_transfers, transfer_id, progress)
    /\ call' = Called("update_transfer_progress", <<transfer_id, progress>>, "none", None)
    /\ UNCHANGED <<run, manager, endpoints, sent, env, rm, provider_rooms, uuid_count, now>>

\* the clock readings at which requests arrive: around the retention window
Instants == {0, 1, RetentionSeconds, RetentionSeconds + 1}

\* the clock moves on between two requests
Tick(instant) ==
    /\ now < instant
    /\ instant <= MaxNow
    /\ now' = instant
    /\ UNCHANGED <<run, manager, endpoints, sent, env, rm, provider_rooms, active_transfers, uuid_count, call>>

CleanupCompletedTransfers ==
    /\ active_transfers' = cleanup_completed_transfers(active_transfers, now)
    /\ call' = Called("cleanup_completed_transfers", << >>, "none", None)
    /\ UNCHANGED <<run, manager, endpoints, sent, env, rm, provider_rooms, uuid_count, now>>

ListActiveTransfers ==
    /\ call' = Called("list_active_transfers", << >>, "none",
                      list_active_transfers(active_transfers))
    /\ UNCHANGED <<run, manager, endpoints, sent, env, rm, provider_rooms, active_transfers, uuid_count, now>>

GetTransferStatistics ==
    /\ LET r == get_transfer_statistics(active_transfers)
       IN call' = Called("get_transfer_statistics", << >>, r.err, r.value)
    /\ UNCHANGED <<run, manager, endpoints, sent, env, rm, provider_rooms, active_transfers, uuid_count, now>>

Listeners(room_name) == GetOr(manager.active_connections, room_name, << >>)

SendOutcomes == [WebSockets -> Outcomes]

\* websocket_endpoint up to its first receive: a new connection is accepted
\* and registered
WsConnect(websocket, room_name, out) ==
    /\ endpoints[websocket] = None
    /\ IF out = "ok"
       THEN /\ manager' = connect(manager, websocket, room_name)
            /\ endpoints' = [endpoints EXCEPT ![websocket] = room_name]
       ELSE UNCHANGED <<run, manager, endpoints>>
    /\ sent' = << >>
    /\ call' = Called("ws_connect", <<websocket, room_name>>,
                      IF out = "ok" THEN "none" ELSE "AcceptError", None)
    /\ UNCHANGED <<run, env, rm, provider_rooms, active_transfers, uuid_count, now>>

\* websocket_endpoint: a text is received and broadcast to the room
WsReceive(websocket, data, outs) ==
    /\ endpoints[websocket] # None
    /\ LET b == broadcast_to_room(manager, RoomMessage(endpoints[websocket], data),
                                  endpoints[websocket], outs)
       IN /\ manager' = b.manager
          /\ sent' = b.sent
    /\ call' = Called("ws_receive", <<websocket, endpoints[websocket]>>, "none", None)
    /\ UNCHANGED <<run, env, rm, provider_rooms, active_transfers, uuid_count, now, endpoints>>

\* websocket_endpoint: receive_text raises WebSocketDisconnect
WsDisconnect(websocket) ==
    /\ endpoints[websocket] # None
    /\ manager' = disconnect(manager, websocket, endpoints[websocket])
    /\ endpoints' = [endpoints EXCEPT ![websocket] = None]
    /\ sent' = << >>
    /\ call' = Called("ws_disconnect", <<websocket, endpoints[websocket]>>, "none", None)
    /\ UNCHANGED <<run, env, rm, provider_rooms, active_transfers, uuid_count, now>>

\* what the handler of POST /api/transfer/initiate does once the service call
\* has ended as r
\* transfer_service is built only when both of its services were
transfer_service == env.room_manager /\ env.llm_service

AnswerInitiate(r, from_room, args, send_outs) ==
    \E b \in {IF /\ r.err = "none"
                  /\ HasAttr(Get(r.transfers, r.value), "caller_token")
                  /\ HasAttr(Get(r.transfers, r.value), "destination_room")
               THEN broadcast_to_room(manager, TransferNotification(Get(r.transfers, r.value)),
                                      from_room, send_outs)
               ELSE Broadcast(manager, << >>)} :
        /\ rm' = r.m
        /\ provider_rooms' = r.prov
        /\ active_transfers' = r.transfers
        /\ manager' = b.manager
        /\ sent' = b.sent
        /\ call' = Called("POST /api/transfer/initiate", args, r.err,
                          IF r.err = "none" THEN Response(200, Get(r.transfers, r.value))
                          ELSE Response(500, r.err))

\* POST /api/transfer/initiate: nothing looks at transfer_service before its
\* method is called inside the try
PostTransferInitiate(from_room, to_room, from_agent, to_agent, caller_name, outs, send_outs) ==
    /\ transfer_service
    /\ uuid_count < MaxTransfers
    /\ ~(/\ ReachesCopy(rm, provider_rooms, from_room, to_room, to_agent, caller_name, now, outs)
         /\ CopyDiverges(rm, from_room, to_room))
    /\ \E r \in {initiate_transfer(rm, provider_rooms, active_transfers, uuid_count + 1,
                                    from_room, to_room, from_agent, to_agent, caller_name,
                                    now, outs)} :
           AnswerInitiate(r, from_room,
                          <<from_room, to_room, from_agent, to_agent, caller_name>>, send_outs)
    /\ uuid_count' = uuid_count + 1
    /\ UNCHANGED <<run, env, now, endpoints>>

\* POST /api/transfer/initiate while transfer_service is None
PostTransferInitiateUnserved(from_room, to_room, from_agent, to_agent, caller_name) ==
    /\ ~transfer_service
    /\ call' = Called("POST /api/transfer/initiate",
                      <<from_room, to_room, from_agent, to_agent, caller_name>>,
                      "AttributeError: 'NoneType' object has no attribute 'initiate_transfer'",
                      Response(500, "AttributeError: 'NoneType' object has no attribute 'initiate_transfer'"))
    /\ UNCHANGED <<run, manager, endpoints, sent, env, rm, provider_rooms, active_transfers, uuid_count, now>>


\* The other request handlers of main.py and the route table

\* the GET routes in the order the decorators register them
Routes ==
    << [path |-> <<"api", "agents", "available">>, endpoint |-> "get_available_agents"],
       [path |-> <<"api", "transfer", "debug", "{transfer_id}">>, endpoint |-> "debug_transfer"],
       [path |-> <<"api", "transfer", "debug", "active">>, endpoint |-> "get_active_transfers"],
       [path |-> <<"api", "rooms", "{room_name}", "state">>, endpoint |-> "get_room_state"] >>

\* a route matches a path segment by segment; a {parameter} takes any segment
Matches(route, path) ==
    /\ Len(route.path) = Len(path)
    /\ \A i \in 1..Len(path) :
           route.path[i] \in {"{transfer_id}", "{room_name}", path[i]}

\* the router hands the request to the first route that matches
Route(path) ==
    LET matching == {i \in 1..Len(Routes) : Matches(Routes[i], path)}
    IN IF matching = {} THEN "not found"
       ELSE Routes[CHOOSE i \in matching : \A j \in matching : i <= j].endpoint

\* the key of the transfer map a path segment spells, 0 when it spells none
TransferKey(segment) ==
    CASE segment = "1" -> 1
      [] segment = "2" -> 2
      [] OTHER -> 0

\* raise HTTPException(status_code, detail)
HTTPException(status_code, detail) ==
    [raised |-> "HTTPException", status_code |-> status_code, detail |-> detail]

Returned(value) == [value |-> value]

\* try: ... except Exception as e: raise HTTPException(500, str(e)), around a
\* body that returned or raised; HTTPException is an Exception
Except500(result) ==
    IF Raised(result) THEN Response(500, result) ELSE Response(200, result.value)

\* GET /api/agents/available
api_get_available_agents ==
    Except500(IF ~env.room_manager
              THEN HTTPException(501, "Room manager not available")
              ELSE Returned([agents |-> get_available_agents(rm)]))

ParticipantNames(participants) ==
    [i \in 1..Len(participants) |->
        [name |-> participants[i].name, is_agent |-> participants[i].is_agent]]

\* GET /api/transfer/debug/{transfer_id}
api_debug_transfer(transfer_id) ==
    Except500(IF ~transfer_service
              THEN HTTPException(501, "Transfer service not available")
              ELSE IF ~Has(active_transfers, transfer_id)
              THEN HTTPException(404, "Transfer not found")
              ELSE LET transfer_info == Get(active_transfers, transfer_id)
                   IN Returned([transfer |-> transfer_info,
                                from_room_participants |->
                                    ParticipantNames(Participants(transfer_info.from_room)),
                                to_room_participants |->
                                    ParticipantNames(Participants(transfer_info.to_room)),
                                conversation_history |-> History(transfer_info.from_room)]))

\* GET /api/transfer/debug/active
api_get_active_transfers ==
    IF ~transfer_service THEN Response(200, [transfers |-> << >>])
    ELSE Response(200, [transfers |-> Values(list_active_transfers(active_transfers))])

\* GET /api/rooms/{room_name}/state
api_get_room_state(room_name) ==
    Except500(IF ~env.room_manager
              THEN HTTPException(501, "Room manager not available")
              ELSE Returned(get_room_state(rm, room_name)))

\* a GET request, answered by the endpoint the router picks
HttpGet(path) ==
    /\ call' = Called("GET", <<path>>, "none",
                      CASE Route(path) = "get_available_agents" -> api_get_available_agents
                        [] Route(path) = "debug_transfer" -> api_debug_transfer(TransferKey(path[4]))
                        [] Route(path) = "get_active_transfers" -> api_get_active_transfers
                        [] Route(path) = "get_room_state" -> api_get_room_state(path[3])
                        [] OTHER -> Response(404, "Not Found"))
    /\ UNCHANGED <<run, manager, endpoints, sent, env, rm, provider_rooms, active_transfers, uuid_count, now>>

\* POST /api/token/generate and POST /api/rooms/create: the same body, the
\* first answers with the token and the room name, the second with the RoomInfo
PostRoomCreate(op, room_name, participant_name, is_agent, out) ==
    /\ Len(Participants(room_name)) < MaxParts
    /\ \E r \in {create_room(rm, provider_rooms, room_name, participant_name, is_agent, now, out)} :
         \E room_info \in {RoomInfo(room_name, create_room_token(room_name, participant_name, is_agent),
                                     participant_name, is_agent, now)} :
           /\ rm' = IF env.room_manager THEN r.m ELSE rm
           /\ provider_rooms' = IF env.room_manager THEN r.prov ELSE provider_rooms
           /\ call' = Called(op, <<room_name, participant_name, is_agent>>, "none",
                             IF ~env.room_manager
                             THEN Response(501, "Room manager not available")
                             ELSE IF r.err # "none" THEN Response(500, r.err)
                             ELSE IF op = "POST /api/token/generate"
                             THEN Response(200, [token |-> room_info.token,
                                                 room_name |-> room_info.room_name])
                             ELSE Response(200, room_info))
    /\ UNCHANGED <<run, manager, endpoints, sent, env, active_transfers, uuid_count, now>>

\* POST /api/transfer/complete: nothing looks at transfer_service before its
\* method is called inside the try
PostTransferComplete(transfer_id, from_room, to_room, out) ==
    /\ \E r \in {complete_transfer(rm, provider_rooms, active_transfers, transfer_id,
                                     from_room, to_room, now, out)} :
           /\ rm' = IF transfer_service THEN r.m ELSE rm
           /\ provider_rooms' = IF transfer_service THEN r.prov ELSE provider_rooms
           /\ active_transfers' = IF transfer_service THEN r.transfers ELSE active_transfers
           /\ call' = Called("POST /api/transfer/complete", <<transfer_id, from_room, to_room>>,
                             "none",
                             IF ~transfer_service
                             THEN Response(500, "AttributeError: 'NoneType' object has no attribute 'complete_transfer'")
                             ELSE IF r.err # "none" THEN Response(500, r.err)
                             ELSE Response(200, r.value))
    /\ UNCHANGED <<run, manager, endpoints, sent, env, uuid_count, now>>

\* POST /api/rooms/{room_name}/restore
PostRoomRestore(room_name, state) ==
    /\ rm' = IF env.room_manager THEN restore_room_state(rm, room_name, state) ELSE rm
    /\ call' = Called("POST /api/rooms/{room_name}/restore", <<room_name, state>>, "none",
                      Except500(IF ~env.room_manager
                                THEN HTTPException(501, "Room manager not available")
                                ELSE Returned([status |-> "restored", room_name |-> room_name])))
    /\ UNCHANGED <<run, manager, endpoints, sent, env, provider_rooms, active_transfers, uuid_count, now>>

\* POST /api/twilio/dial: out is how TwilioService.dial_and_connect ends
PostTwilioDial(room_name, out) ==
    /\ call' = Called("POST /api/twilio/dial", <<room_name>>, "none",
                      IF ~env.twilio_service
                      THEN Response(501, "Twilio service not configured")
                      ELSE IF out # "ok" THEN Response(500, "TwilioError")
                      ELSE Response(200, [room_name |-> room_name]))
    /\ UNCHANGED <<run, manager, endpoints, sent, env, rm, provider_rooms, active_transfers, uuid_count, now>>

\* initiate_transfer step by step: run.pc is the call to the room manager the
\* coroutine makes next.  The first step is initiate_transfer up to that
\* call: the id, the history, the summary and the stored record
InitiateBegin(from_room, to_room, from_agent, to_agent, caller_name, llm_out) ==
    /\ run.pc = "idle"
    /\ uuid_count < MaxTransfers
    /\ active_transfers' =
           Put(active_transfers, uuid_count + 1,
               TransferInfo(uuid_count + 1, from_room, to_room, from_agent, to_agent, caller_name,
                            generate_call_summary(History(from_room), llm_out), now))
    /\ run' = [pc |-> "join_agent", transfer_id |-> uuid_count + 1, from_room |-> from_room,
               to_room |-> to_room, from_agent |-> from_agent, to_agent |-> to_agent,
               caller_name |-> caller_name]
    /\ uuid_count' = uuid_count + 1
    /\ call' = Called("TransferInfo", <<from_room, to_room, from_agent, to_agent, caller_name>>,
                      "none", uuid_count + 1)
    /\ UNCHANGED <<manager, endpoints, sent, env, rm, provider_rooms, now>>

\* except clauses that raise an exception of their own in place of the one
\* they caught
InitiateRaisesWrapped(err) ==
    /\ run' = Idle
    /\ call' = Called("initiate_transfer",
                      <<run.from_room, run.to_room, run.from_agent, run.to_agent, run.caller_name>>,
                      "TransferError", None)

\* the except clauses of initiate_transfer and its helpers log and re-raise
InitiateRaises(err) ==
    /\ run' = Idle
    /\ call' = Called("initiate_transfer",
                      <<run.from_room, run.to_room, run.from_agent, run.to_agent, run.caller_name>>,
                      err, None)

\* _setup_destination_room going on to create_room although join_room returned
after_join_room_always_create(err) == "create_agent"

\* _setup_destination_room after join_room: its bare except leads to create_room
after_join_room(err) == IF err = "none" THEN "remove_caller" ELSE "create_agent"

\* _setup_destination_room: join_room(to_room, to_agent, is_agent=True)
InitiateJoinAgent(out) ==
    /\ run.pc = "join_agent"
    /\ \E r \in {join_room(rm, provider_rooms, run.to_room, run.to_agent, TRUE, now, out)} :
           /\ rm' = r.m
           /\ provider_rooms' = r.prov
           /\ run' = [run EXCEPT !.pc = after_join_room(r.err)]
           /\ call' = Called("join_room", <<run.to_room, run.to_agent>>, r.err,
                             IF r.err = "none"
                             THEN RoomInfo(run.to_room,
                                           join_room_token(run.to_room, run.to_agent, TRUE),
                                           run.to_agent, TRUE, now)
                             ELSE None)
    /\ UNCHANGED <<manager, endpoints, sent, env, active_transfers, uuid_count, now>>

\* _setup_destination_room: create_room(to_room, to_agent, is_agent=True)
InitiateCreateRoom(out) ==
    /\ run.pc = "create_agent"
    /\ \E r \in {create_room(rm, provider_rooms, run.to_room, run.to_agent, TRUE, now, out)} :
           /\ rm' = r.m
           /\ provider_rooms' = r.prov
           /\ IF r.err # "none" THEN InitiateRaises(r.err)
              ELSE /\ run' = [run EXCEPT !.pc = "remove_caller"]
                   /\ call' = Called("create_room", <<run.to_room, run.to_agent>>, "none",
                                     RoomInfo(run.to_room,
                                              create_room_token(run.to_room, run.to_agent, TRUE),
                                              run.to_agent, TRUE, now))
    /\ UNCHANGED <<manager, endpoints, sent, env, active_transfers, uuid_count, now>>

\* _move_caller_to_destination_room: remove_participant(from_room, caller_name)
InitiateRemoveCaller(out) ==
    /\ run.pc = "remove_caller"
    /\ \E r \in {remove_participant(rm, provider_rooms, run.from_room, run.caller_name, out)} :
           /\ rm' = r.m
           /\ provider_rooms' = r.prov
           /\ IF r.err # "none" THEN InitiateRaises(r.err)
              ELSE /\ run' = [run EXCEPT !.pc = "join_caller"]
                   /\ call' = Called("remove_participant", <<run.from_room, run.caller_name>>,
                                     "none", None)
    /\ UNCHANGED <<manager, endpoints, sent, env, active_transfers, uuid_count, now>>

\* _move_caller_to_destination_room: join_room(to_room, caller_name); when it
\* returns the loop over the history of from_room starts.  run.index is the
\* position of the list iterator, run.began the length the list had then
InitiateJoinCaller(out) ==
    /\ run.pc = "join_caller"
    /\ \E r \in {join_room(rm, provider_rooms, run.to_room, run.caller_name, FALSE, now, out)} :
           /\ rm' = r.m
           /\ provider_rooms' = r.prov
           /\ IF r.err # "none" THEN InitiateRaises(r.err)
              ELSE /\ run' = [pc |-> "copy", transfer_id |-> run.transfer_id,
                              from_room |-> run.from_room, to_room |-> run.to_room,
                              from_agent |-> run.from_agent, to_agent |-> run.to_agent,
                              caller_name |-> run.caller_name, index |-> 0,
                              began |-> Len(get_room_conversation_history(r.m, run.from_room))]
                   /\ call' = Called("join_room", <<run.to_room, run.caller_name>>, "none",
                                     RoomInfo(run.to_room,
                                              join_room_token(run.to_room, run.caller_name, FALSE),
                                              run.caller_name, FALSE, now))
    /\ UNCHANGED <<manager, endpoints, sent, env, active_transfers, uuid_count, now>>

\* one turn of "for message in conversation_history": the iterator reads the
\* list object the registry holds for from_room at its position, and the body
\* appends to the list of to_room; nothing is awaited between the turns
InitiateCopyMessage ==
    /\ run.pc = "copy"
    /\ run.index < Len(History(run.from_room))
    /\ Len(History(run.to_room)) < MaxCopied
    /\ rm' = add_conversation_message(rm, run.to_room,
                                      History(run.from_room)[run.index + 1].speaker,
                                      History(run.from_room)[run.index + 1].message, now)
    /\ run' = [run EXCEPT !.index = @ + 1]
    /\ call' = Called("add_conversation_message",
                      <<run.to_room, History(run.from_room)[run.index + 1].speaker,
                        History(run.from_room)[run.index + 1].message>>, "none", None)
    /\ UNCHANGED <<manager, endpoints, sent, env, provider_rooms, active_transfers, uuid_count, now>>

\* the iterator is exhausted: generate_transfer_message, the write of
\* in_progress into the record initiate_transfer holds, and the return
InitiateReturn ==
    /\ run.pc = "copy"
    /\ run.index >= Len(History(run.from_room))
    /\ active_transfers' = SetStatus(active_transfers, run.transfer_id, "in_progress")
    /\ run' = Idle
    /\ call' = Called("initiate_transfer",
                      <<run.from_room, run.to_room, run.from_agent, run.to_agent, run.caller_name>>,
                      "none", run.transfer_id)
    /\ UNCHANGED <<manager, endpoints, sent, env, rm, provider_rooms, uuid_count, now>>

\* The transfer lifecycle: the coordinator's operations in any order
Next ==
    \/ \E f \in Rooms, t \in Rooms, outs \in OutcomeVectors : InitiateTransfer(f, t, "Alice", "Bob", "Caller1", outs)
    \/ \E id \in TransferIds, f \in Rooms, t \in Rooms, out \in Outcomes : CompleteTransfer(id, f, t, out)
    \/ \E id \in TransferIds : CancelTransfer(id)
    \/ \E id \in TransferIds, p \in ProgressValues : UpdateTransferProgress(id, p)

Spec == Init /\ [][Next]_vars

\* A call in roomA (its agent and caller join, messages are recorded) that is
\* then transferred
NextMove ==
    \/ \E p \in {"Alice", "Caller1"}, out \in Outcomes : CreateRoom("roomA", p, out)
    \/ \E s \in Speakers, t \in Texts : AddConversationMessage("roomA", s, t)
    \/ \E f \in Rooms, t \in Rooms, outs \in OutcomeVectors : InitiateTransfer(f, t, "Alice", "Bob", "Caller1", outs)

SpecMove == Init /\ [][NextMove]_vars

\* The conversation histories of the registry
NextHistory ==
    \/ \E r \in Rooms, s \in Speakers, t \in Texts : AddConversationMessage(r, s, t)
    \/ \E r \in Rooms : GetRoomConversationHistory(r)
    \/ \E r \in Rooms : ClearConversationHistory(r)
    \/ \E r \in Rooms : RestoreRoomState(r, HistoryBlob)

SpecHistory == Init /\ [][NextHistory]_vars

\* The participant lists of the registry
NextMembers ==
    \/ \E p \in Names, out \in Outcomes : CreateRoom("roomA", p, out)
    \/ \E p \in Names, out \in Outcomes : JoinRoom("roomA", p, out)
    \/ \E r \in Rooms, p \in Names, out \in Outcomes : RemoveParticipant(r, p, out)
    \/ \E r \in Rooms, b \in {ParticipantsBlob, MalformedBlob} : RestoreRoomState(r, b)

SpecMembers == Init /\ [][NextMembers]_vars

\* The agent-owned rooms of the registry
NextAgents ==
    \/ \E r \in AgentRooms : Participants(r) = << >> /\ CreateRoom(r, "Bob", "ok")
    \/ \E r \in AgentRooms : RemoveParticipant(r, "Bob", "ok")
    \/ \E r \in AgentRooms \cup {"roomA"} : RestoreRoomState(r, RoomInfoBlob)
    \/ \E r \in AgentRooms : RestoreRoomState(r, BobBlob)

SpecAgents == Init /\ [][NextAgents]_vars

\* Records that age and are swept
NextSweep ==
    \/ \E outs \in OutcomeVectors : InitiateTransfer("roomA", "roomB", "Alice", "Bob", "Caller1", outs)
    \/ \E id \in TransferIds, t \in Rooms, out \in Outcomes : CompleteTransfer(id, "roomA", t, out)
    \/ \E id \in TransferIds : CancelTransfer(id)
    \/ \E instant \in Instants : Tick(instant)
    \/ CleanupCompletedTransfers

SpecSweep == Init /\ [][NextSweep]_vars

\* The lifecycle and the two reports on the transfer map
NextReports ==
    \/ \E f \in Rooms, t \in Rooms, outs \in OutcomeVectors : InitiateTransfer(f, t, "Alice", "Bob", "Caller1", outs)
    \/ \E id \in TransferIds, f \in Rooms, t \in Rooms, out \in Outcomes : CompleteTransfer(id, f, t, out)
    \/ \E id \in TransferIds : CancelTransfer(id)
    \/ \E id \in TransferIds, p \in ProgressValues : UpdateTransferProgress(id, p)
    \/ ListActiveTransfers
    \/ GetTransferStatistics

SpecReports == Init /\ [][NextReports]_vars

\* A call in roomA whose agent is registered there, transferred and completed
NextComplete ==
    \/ RestoreRoomState("roomA", ParticipantsBlob)
    \/ \E out \in Outcomes : CreateRoom("roomA", "Alice", out)
    \/ \E outs \in OutcomeVectors : InitiateTransfer("roomA", "roomB", "Alice", "Bob", "Caller1", outs)
    \/ \E id \in TransferIds, t \in Rooms, out \in Outcomes : CompleteTransfer(id, "roomA", t, out)

SpecComplete == Init /\ [][NextComplete]_vars

\* every remote call of an initiate_transfer returns
AllOk == [llm |-> "ok", join_agent |-> "ok", create |-> "ok", remove |-> "ok", join_caller |-> "ok"]

\* histories as the summary endpoint accepts them: dicts from strings to
\* strings, any of whose keys may be missing
SummaryMessages ==
    { [speaker |-> "Caller", message |-> "My order is late"],
      [speaker |-> "AGENT", message |-> LongText],
      [speaker |-> "Agent", message |-> "Let me check"],
      [message |-> LongText],
      [speaker |-> "agent"] }

Histories == {<< >>} \cup UNION {[1..n -> SummaryMessages] : n \in 1..MaxMsgs}

GenerateCallSummary(conversation_history, out) ==
    /\ call' = Called("generate_call_summary", <<conversation_history, out>>, "none",
                      generate_call_summary(conversation_history, out))
    /\ UNCHANGED <<run, manager, endpoints, sent, env, rm, provider_rooms, active_transfers, uuid_count, now>>

\* Listeners of the rooms and a transfer announced to them; the transfer
\* fails where the provider library or its settings are missing
NextNotify ==
    \/ \E w \in WebSockets, r \in Rooms, out \in Outcomes : WsConnect(w, r, out)
    \/ \E w \in WebSockets, d \in Data, outs \in SendOutcomes : WsReceive(w, d, outs)
    \/ \E w \in WebSockets : WsDisconnect(w)
    \/ \E send_outs \in SendOutcomes : PostTransferInitiate("roomA", "roomB", "Alice", "Bob", "Caller1", AllOk, send_outs)

SpecNotify == Init /\ [][NextNotify]_vars

\* The HTTP interface: requests in any order, in a deployment where any of
\* the services may be missing
NextApi ==
    \/ \E path \in {<<"api", "agents", "available">>, <<"api", "transfer", "debug", "1">>, <<"api", "transfer", "debug", "active">>, <<"api", "rooms", "roomA", "state">>} : HttpGet(path)
    \/ \E op \in {"POST /api/token/generate", "POST /api/rooms/create"}, p \in {"Alice", "Caller1"}, out \in Outcomes : PostRoomCreate(op, "roomA", p, IsAgentName(p), out)
    \/ PostTransferInitiate("roomA", "roomB", "Alice", "Bob", "Caller1", AllOk, [websocket \in WebSockets |-> "ok"])
    \/ PostTransferInitiateUnserved("roomA", "roomB", "Alice", "Bob", "Caller1")
    \/ \E id \in TransferIds, out \in Outcomes : PostTransferComplete(id, "roomA", "roomB", out)
    \/ \E b \in {ParticipantsBlob, HistoryBlob} : PostRoomRestore("roomA", b)
    \/ \E out \in Outcomes : PostTwilioDial("roomA", out)

SpecApi == InitApi /\ [][NextApi]_vars

\* One initiate_transfer from roomA to roomB taken step by step, in rooms
\* filled beforehand and afterwards
NextSteps ==
    \/ run.pc = "idle" /\ \E r \in Rooms, p \in Names, out \in Outcomes : CreateRoom(r, p, out)
    \/ run.pc = "idle" /\ \E s \in Speakers, t \in Texts : AddConversationMessage("roomA", s, t)
    \/ InitiateBegin("roomA", "roomB", "Alice", "Bob", "Caller1", "ok")
    \/ \E out \in Outcomes : InitiateJoinAgent(out)
    \/ \E out \in Outcomes : InitiateCreateRoom(out)
    \/ \E out \in Outcomes : InitiateRemoveCaller(out)
    \/ \E out \in Outcomes : InitiateJoinCaller(out)
    \/ InitiateCopyMessage
    \/ InitiateReturn

SpecSteps == Init /\ [][NextSteps]_vars

\* One initiate_transfer taken step by step whose destination may be the
\* source room itself
NextCopy ==
    \/ run.pc = "idle" /\ \E s \in Speakers, t \in Texts : AddConversationMessage("roomA", s, t)
    \/ \E to_room \in Rooms : InitiateBegin("roomA", to_room, "Alice", "Bob", "Caller1", "ok")
    \/ \E out \in Outcomes : InitiateJoinAgent(out)
    \/ \E out \in Outcomes : InitiateCreateRoom(out)
    \/ \E out \in Outcomes : InitiateRemoveCaller(out)
    \/ \E out \in Outcomes : InitiateJoinCaller(out)
    \/ InitiateCopyMessage
    \/ InitiateReturn

SpecCopy == Init /\ [][NextCopy]_vars

\* An initiate_transfer under way and the other operations the event loop can
\* run while it waits for the room provider; from the return of the caller's
\* join_room to the return of initiate_transfer nothing is awaited
NextRace ==
    \/ run.pc = "idle" /\ CreateRoom("roomA", "Caller1", "ok")
    \/ run.pc # "copy" /\ \E s \in Speakers, t \in Texts : AddConversationMessage("roomA", s, t)
    \/ InitiateBegin("roomA", "roomB", "Alice", "Bob", "Caller1", "ok")
    \/ \E out \in Outcomes : InitiateJoinAgent(out)
    \/ \E out \in Outcomes : InitiateCreateRoom(out)
    \/ \E out \in Outcomes : InitiateRemoveCaller(out)
    \/ \E out \in Outcomes : InitiateJoinCaller(out)
    \/ InitiateCopyMessage
    \/ InitiateReturn
    \/ run.pc # "copy" /\ \E id \in TransferIds : CancelTransfer(id)
    \/ run.pc # "copy" /\ \E id \in TransferIds, out \in Outcomes : CompleteTransfer(id, "roomA", "roomB", out)

SpecRace == Init /\ [][NextRace]_vars

\* summaries: of histories handed in directly, and of a room's history when a
\* transfer starts
NextSummary ==
    \/ \E h \in Histories, out \in (IF env.openai THEN Outcomes ELSE {"ok"}) : GenerateCallSummary(h, out)
    \/ \E s \in Speakers, t \in Texts : AddConversationMessage("roomA", s, t)
    \/ \E outs \in OutcomeVectors : InitiateTransfer("roomA", "roomB", "Alice", "Bob", "Caller1", outs)

SpecSummary == InitLLM /\ [][NextSummary]_vars

-----------------------------------------------------------------------------
(* The transfer state machine *)

Known(id) == Has(active_transfers, id)

Status(id) == Get(active_transfers, id).status

\* C1: once a transfer record's status is completed, failed or cancelled, no
\* later operation of the coordinator changes it.
C1_TerminalStatusIsFinal ==
    [][\A id \in TransferIds :
          (Known(id) /\ Status(id) \in Terminal)
              => (Known(id)' /\ Status(id)' = Status(id))]_vars

Edges ==
    { <<"initiated", "in_progress">>, <<"in_progress", "completed">>,
      <<"in_progress", "failed">>, <<"initiated", "cancelled">>,
      <<"in_progress", "cancelled">> }

\* C2: every change of a record's status is one of the edges of the state
\* machine; completed and failed are reached only from in_progress.
C2_OnlyStateMachineEdges ==
    [][\A id \in TransferIds :
          (Known(id) /\ Known(id)' /\ Status(id)' # Status(id))
              => <<Status(id), Status(id)'>> \in Edges]_vars

\* the step is a complete_transfer call for a known transfer whose room
\* arguments differ from the record's
MismatchedCompletion ==
    /\ call'.op = "complete_transfer"
    /\ Known(call'.args[1])
    /\ \/ Get(active_transfers, call'.args[1]).from_room # call'.args[2]
       \/ Get(active_transfers, call'.args[1]).to_room # call'.args[3]

\* C3: complete_transfer with room arguments that differ from the record's
\* fails with the room-mismatch error and leaves the record's status as it was.
C3_MismatchLeavesStatus ==
    [][MismatchedCompletion
          => /\ call'.err = "ValueError: Transfer room mismatch"
             /\ Get(active_transfers', call'.args[1]).status = Status(call'.args[1])]_vars

\* C4: cancel_transfer sets an initiated or in_progress record to cancelled;
\* on a record in any other status it fails with the invalid-state error and
\* leaves the status; on an unknown id it fails and creates no record.
C4_Cancel ==
    [][call'.op = "cancel_transfer"
          => LET id == call'.args[1] IN
             /\ UNCHANGED rm
             /\ ~Known(id)
                  => /\ call'.err = "ValueError: transfer not found"
                     /\ UNCHANGED active_transfers
             /\ (Known(id) /\ Status(id) \in {"initiated", "in_progress"})
                  => /\ call'.err = "none"
                     /\ active_transfers' = SetStatus(active_transfers, id, "cancelled")
             /\ (Known(id) /\ Status(id) \notin {"initiated", "in_progress"})
                  => /\ call'.err = "ValueError: Cannot cancel transfer in status"
                     /\ UNCHANGED active_transfers]_vars

\* a cancellation was refused on a completed record
C4_Witness ==
    /\ call.op = "cancel_transfer"
    /\ call.err = "ValueError: Cannot cancel transfer in status"
    /\ Status(call.args[1]) = "completed"

-----------------------------------------------------------------------------
(* What a successful initiate_transfer leaves behind *)

ParticipantsAfter(room_name) == GetOr(rm'.room_participants, room_name, << >>)

HistoryAfter(room_name) == get_room_conversation_history(rm', room_name)

InRoom(room_name, participant_name, is_agent) ==
    \E i \in 1..Len(Participants(room_name)) :
        /\ Participants(room_name)[i].identity = participant_name
        /\ Participants(room_name)[i].is_agent = is_agent

Identities(participants) == {participants[i].identity : i \in 1..Len(participants)}

\* C5: when initiate_transfer returns with from_room # to_room, the returned
\* and stored record is in_progress, to_room lists the caller as a non-agent
\* and to_agent as an agent, and from_room lists no entry of the caller.
C5_SuccessfulInitiate ==
    (call.op = "initiate_transfer" /\ call.err = "none" /\ call.args[1] # call.args[2])
        => /\ Known(call.value)
           /\ Status(call.value) = "in_progress"
           /\ Get(active_transfers, call.value).from_room = call.args[1]
           /\ Get(active_transfers, call.value).to_room = call.args[2]
           /\ InRoom(call.args[2], call.args[5], FALSE)
           /\ InRoom(call.args[2], call.args[4], TRUE)
           /\ call.args[5] \notin Identities(Participants(call.args[1]))

\* the caller and the agent were in roomA, and the transfer to roomB returned
C5_Witness ==
    /\ call.op = "initiate_transfer"
    /\ call.err = "none"
    /\ call.args[1] = "roomA"
    /\ call.args[2] = "roomB"
    /\ Identities(Participants("roomA")) = {"Alice"}
    /\ Identities(Participants("roomB")) = {"Bob", "Caller1"}

SpeakerAndText(messages) ==
    [i \in 1..Len(messages) |-> <<messages[i].speaker, messages[i].message>>]

-----------------------------------------------------------------------------
(* The registry *)

\* C7: every add_conversation_message on a room puts its message at the end of
\* what get_room_conversation_history returned before, so N calls on an
\* unknown or empty room leave exactly the N messages in call order; the
\* history of a room never written is empty and reading it creates no entry.
C7_AppendInCallOrder ==
    [][/\ call'.op = "add_conversation_message"
          => LET room_name == call'.args[1] IN
             /\ Len(HistoryAfter(room_name)) = Len(History(room_name)) + 1
             /\ SubSeq(HistoryAfter(room_name), 1, Len(History(room_name))) = History(room_name)
             /\ HistoryAfter(room_name)[Len(History(room_name)) + 1].speaker = call'.args[2]
             /\ HistoryAfter(room_name)[Len(History(room_name)) + 1].message = call'.args[3]
             /\ \A other \in AllRooms \ {room_name} : HistoryAfter(other) = History(other)
       /\ call'.op = "get_room_conversation_history"
          => /\ UNCHANGED rm
             /\ Has(rm.conversation_history, call'.args[1])
                  => call'.value = Get(rm.conversation_history, call'.args[1])
             /\ ~Has(rm.conversation_history, call'.args[1])
                  => call'.value = << >>]_vars

\* two messages were appended to a room, the agent's after the caller's
C7_Witness ==
    /\ call.op = "add_conversation_message"
    /\ call.args[2] = "Agent"
    /\ SpeakerAndText(History(call.args[1])) = <<<<"Caller", "My order is late">>, <<"Agent", "My order is late">>>>

\* the step is a second remove_participant with the arguments of the call before
\* it, which returned
RemovedTwice ==
    /\ call.op = "remove_participant"
    /\ call.err = "none"
    /\ call'.op = "remove_participant"
    /\ call'.args = call.args

\* C8: a second remove_participant in a row leaves the participant list as the
\* first call left it, and does not fail.
C8_SecondRemovalNeverFails ==
    [][RemovedTwice
          => /\ ParticipantsAfter(call.args[1]) = Participants(call.args[1])
             /\ call'.err = "none"]_vars

\* the entries of other identities, in their order
RECURSIVE Others(_, _)
Others(participants, identity) ==
    IF participants = << >> THEN << >>
    ELSE (IF Head(participants).identity = identity THEN << >> ELSE <<Head(participants)>>)
            \o Others(Tail(participants), identity)

\* C9: whenever remove_participant returns without error the room's list holds
\* no entry of that identity and every other entry in its order, in every
\* provider configuration.
C9_RemovedWhenReturned ==
    [][(call'.op = "remove_participant" /\ call'.err = "none")
          => /\ call'.args[2] \notin Identities(ParticipantsAfter(call'.args[1]))
             /\ ParticipantsAfter(call'.args[1])
                    = Others(Participants(call'.args[1]), call'.args[2])]_vars

\* C10: get_available_agents returns names in ascending order, none twice.
C10_AgentsSortedNoDuplicates ==
    LET agents == get_available_agents(rm) IN
    /\ \A i, j \in 1..Len(agents) : i # j => agents[i] # agents[j]
    /\ \A i, j \in 1..Len(agents) : i < j => StrLess(agents[i], agents[j])

\* the list collected before sorting names one agent twice, out of order
C10_Witness ==
    /\ AvailableAgentsUnsorted(rm) = <<AgentName("agent-room-bob"), AgentName("agent-room-al-b"), AgentName("agent-room-BOB")>>
    /\ get_available_agents(rm) = <<<<"A", "l", " ", "B">>, <<"B", "o", "b">>>>

-----------------------------------------------------------------------------
(* The transfer map: sweep, completion, reports *)

\* C11: a sweep removes a record if and only if its status is completed, failed
\* or cancelled and it was created more than one hour before the sweep; every
\* other record is still there with all its fields.
C11_SweepRemovesOldTerminal ==
    [][(call'.op = "cleanup_completed_transfers" /\ now' = now)
          => /\ KeySet(active_transfers') \subseteq KeySet(active_transfers)
             /\ \A id \in KeySet(active_transfers) :
                    IF /\ Status(id) \in {"completed", "failed", "cancelled"}
                       /\ now - Get(active_transfers, id).created_at > 60 * 60
                    THEN ~Has(active_transfers', id)
                    ELSE /\ Has(active_transfers', id)
                         /\ Get(active_transfers', id) = Get(active_transfers, id)]_vars

\* a sweep one second after the hour has emptied the map
C11_Witness ==
    /\ call.op = "cleanup_completed_transfers"
    /\ uuid_count = 1
    /\ active_transfers = << >>
    /\ now = 60 * 60 + 1

\* C12: complete_transfer with an id that is not in the map fails with the
\* not-found error, adds no record, changes no record and no room membership.
C12_UnknownIdCompletion ==
    [][(call'.op = "complete_transfer" /\ ~Known(call'.args[1]))
          => /\ call'.err = "ValueError: transfer not found"
             /\ active_transfers' = active_transfers
             /\ rm'.room_participants = rm.room_participants
             /\ provider_rooms' = provider_rooms]_vars

\* a completion of an id never handed out, while the map holds a record
C12_Witness ==
    /\ call.op = "complete_transfer"
    /\ call.err = "ValueError: transfer not found"
    /\ Known(1)
    /\ ~Known(call.args[1])

\* C13: when the removal of from_agent raises during a complete_transfer on a
\* matching record, that exception reaches the caller and the record is failed.
C13_RemovalFailureMarksFailed ==
    [][(/\ call'.op = "complete_transfer"
        /\ Known(call'.args[1])
        /\ ~MismatchedCompletion)
          => \E out \in Outcomes :
                LET removed == remove_participant(rm, provider_rooms, call'.args[2],
                                   Get(active_transfers, call'.args[1]).from_agent, out)
                IN /\ rm' = removed.m
                   /\ removed.err = "none" => call'.err = "none"
                   /\ removed.err # "none"
                        => /\ call'.err = removed.err
                           /\ Get(active_transfers', call'.args[1]).status = "failed"]_vars

\* the provider refused the eviction during a completion of an in-flight record
C13_Witness ==
    /\ call.op = "complete_transfer"
    /\ call.err = "ProviderError"
    /\ Known(call.args[1])
    /\ Get(active_transfers, call.args[1]).from_room = call.args[2]
    /\ Get(active_transfers, call.args[1]).to_room = call.args[3]
    /\ Status(call.args[1]) = "failed"

\* C14: a complete_transfer that returns has removed from_agent from
\* from_room's participant list, leaves the record completed and returns a
\* receipt with the record's id, rooms and summary.
C14_CompletionRemovesAgent ==
    [][(call'.op = "complete_transfer" /\ call'.err = "none")
          => LET before == Get(active_transfers, call'.args[1])
                 after == Get(active_transfers', call'.args[1])
             IN /\ before.from_agent \notin Identities(ParticipantsAfter(before.from_room))
                /\ after.status = "completed"
                /\ call'.value.transfer_id = after.transfer_id
                /\ call'.value.from_room = after.from_room
                /\ call'.value.to_room = after.to_room
                /\ call'.value.summary = after.summary]_vars

\* C15: list_active_transfers returns exactly the records of the map whose
\* status is initiated or in_progress, as they are in the map: no record in a
\* terminal status is returned and none in the two live statuses is left out.
C15_ActiveTransfersListed ==
    LET listed == list_active_transfers(active_transfers) IN
    /\ KeySet(listed) = {id \in KeySet(active_transfers) : Status(id) \in {"initiated", "in_progress"}}
    /\ \A id \in KeySet(listed) : Get(listed, id) = Get(active_transfers, id)
    /\ \A id \in KeySet(active_transfers) : Status(id) \in Terminal => ~Has(listed, id)
    /\ Len(listed) = Cardinality(KeySet(listed))

\* the list was asked for while the only record was in progress
C15_Witness ==
    /\ call.op = "list_active_transfers"
    /\ Known(1)
    /\ Status(1) = "in_progress"
    /\ Len(call.value) = 1

\* C16: the id, rooms, agents and caller name of a record never change.
C16_RecordFieldsImmutable ==
    [][\A id \in KeySet(active_transfers) :
          Has(active_transfers', id)
            => LET before == Get(active_transfers, id)
                   after == Get(active_transfers', id)
               IN /\ after.transfer_id = before.transfer_id
                  /\ after.from_room = before.from_room
                  /\ after.to_room = before.to_room
                  /\ after.from_agent = before.from_agent
                  /\ after.to_agent = before.to_agent
                  /\ after.caller_name = before.caller_name]_vars

\* a record whose status was rewritten still names its rooms and agents
C16_Witness ==
    /\ call.op = "update_transfer_progress"
    /\ Known(1)
    /\ Status(1) = "ringing"
    /\ Get(active_transfers, 1).from_room = "roomA"
    /\ Get(active_transfers, 1).to_room = "roomB"
    /\ Get(active_transfers, 1).from_agent = "Alice"
    /\ Get(active_transfers, 1).to_agent = "Bob"

\* C17: get_transfer_statistics on an empty map returns a success rate of 0
\* and raises no division error.
C17_EmptyMapRateZero ==
    (call.op = "get_transfer_statistics" /\ active_transfers = << >>)
        => /\ call.err = "none"
           /\ call.value.total_transfers = 0
           /\ call.value.success_rate.num = 0
           /\ call.value.success_rate.den # 0

C17_Witness ==
    /\ call.op = "get_transfer_statistics"
    /\ active_transfers = << >>
    /\ call.err = "none"

NumberOf(statuses) ==
    Cardinality({id \in KeySet(active_transfers) : Status(id) \in statuses})

CountsReported ==
    /\ call.err = "none"
    /\ call.value.total_transfers = Cardinality(KeySet(active_transfers))
    /\ call.value.active_transfers = NumberOf({"initiated", "in_progress"})
    /\ call.value.completed_transfers = NumberOf({"completed"})
    /\ call.value.failed_transfers = NumberOf({"failed"})

\* C18 as stated: on a non-empty map the success rate is completed / total, a
\* value between 0 and 1, and the counts are those of the records.
C18_RateIsFraction ==
    (call.op = "get_transfer_statistics" /\ active_transfers # << >>)
        => /\ CountsReported
           /\ call.value.success_rate.num * Len(active_transfers)
                  = NumberOf({"completed"}) * call.value.success_rate.den
           /\ 0 <= call.value.success_rate.num
           /\ call.value.success_rate.num <= call.value.success_rate.den

\* C18: on a non-empty map the success rate is 100 * completed / total, a
\* percentage between 0 and 100, and the counts are those of the records.
C18_RateIsPercentage ==
    (call.op = "get_transfer_statistics" /\ active_transfers # << >>)
        => /\ CountsReported
           /\ call.value.success_rate.den > 0
           /\ call.value.success_rate.num * Len(active_transfers)
                  = 100 * NumberOf({"completed"}) * call.value.success_rate.den
           /\ 0 <= call.value.success_rate.num
           /\ call.value.success_rate.num <= 100 * call.value.success_rate.den

\* the statistics of a map whose only record is completed
C18_Witness ==
    /\ call.op = "get_transfer_statistics"
    /\ call.err = "none"
    /\ Known(1)
    /\ Status(1) = "completed"
    /\ call.value.completed_transfers = 1
    /\ call.value.success_rate = [num |-> 100, den |-> 1]

-----------------------------------------------------------------------------
(* Notifications *)

ListenersAfter(room_name) == GetOr(manager'.active_connections, room_name, << >>)

\* C19: every successful POST transfer/initiate sends to each listener of
\* from_room one TRANSFER_NOTIFICATION frame whose destination-room field is
\* the transfer's to_room and whose transfer-id field is the new record's id,
\* and sends nothing to anyone else.
C19_NotificationNamesDestination ==
    [][(call'.op = "POST /api/transfer/initiate" /\ call'.err = "none")
          => /\ Len(sent') = Len(Listeners(call'.args[1]))
             /\ \A i \in 1..Len(sent') :
                    /\ sent'[i].to = Listeners(call'.args[1])[i]
                    /\ sent'[i].frame[1] = "TRANSFER_NOTIFICATION"
                    /\ sent'[i].frame[3] = call'.args[2]
                    /\ sent'[i].frame[4] = call'.value.body.transfer_id]_vars

\* the step is a broadcast to room_name: a text received from a listener of the
\* room, or a transfer out of the room that the service has set up
BroadcastTo(room_name) ==
    \/ call'.op = "ws_receive" /\ call'.args[2] = room_name
    \/ /\ call'.op = "POST /api/transfer/initiate"
       /\ call'.args[1] = room_name
       /\ Get(active_transfers', uuid_count + 1).status = "in_progress"

\* C20: a broadcast sends the frame once to each listener of the room and to
\* no one else, the listeners whose send failed are no longer registered
\* afterwards, the others still are, in their order, and the transfer that was
\* announced is answered as successful whatever the sends did.
C20_BrokenListenersPruned ==
    [][\A room_name \in Rooms :
          BroadcastTo(room_name)
            => /\ Len(sent') = Len(Listeners(room_name))
               /\ \A i \in 1..Len(sent') : sent'[i].to = Listeners(room_name)[i]
               /\ \A w \in WebSockets :
                      Cardinality({i \in 1..Len(sent') : sent'[i].to = w}) <= 1
               /\ ListenersAfter(room_name)
                      = SelectSeq(Listeners(room_name),
                                  LAMBDA w : \A i \in 1..Len(sent') :
                                                 sent'[i].to = w => sent'[i].out = "ok")
               /\ \A other \in Rooms \ {room_name} :
                      ListenersAfter(other) = Listeners(other)
               /\ call'.op = "POST /api/transfer/initiate"
                      => /\ call'.err = "none"
                         /\ call'.value = Response(200, Get(active_transfers', uuid_count + 1))]_vars

\* a transfer was announced to two listeners of roomA, the send to the first
\* failed, and the transfer was answered with 200
C20_Witness ==
    /\ call.op = "POST /api/transfer/initiate"
    /\ call.value.status_code = 200
    /\ Len(sent) = 2
    /\ sent[1].out = "error"
    /\ sent[2].out = "ok"
    /\ Listeners("roomA") = <<sent[2].to>>
    /\ Listeners("roomB") # << >>

\* C23: restore_room_state(room, blob) replaces the whole entry of the room:
\* afterwards the room's metadata, participants and history are those of the
\* blob (empty for a key the blob does not carry), and the entries of the
\* other rooms are unchanged.
C23_RestoreReplacesEntry ==
    [][call'.op = "restore_room_state"
          => LET room_name == call'.args[1]
                 state == call'.args[2]
                 data == GetOr(state, "participants", << >>)
             IN (\A i \in 1..Len(data) : WellFormed(data[i]))
                  => /\ GetOr(rm'.active_rooms, room_name, << >>)
                          = GetOr(state, "room_info", << >>)
                     /\ ParticipantsAfter(room_name)
                          = [i \in 1..Len(data) |-> ParticipantOfData(data[i])]
                     /\ HistoryAfter(room_name)
                          = GetOr(state, "conversation_history", << >>)
                     /\ \A other \in Rooms \ {room_name} :
                            /\ ParticipantsAfter(other) = Participants(other)
                            /\ HistoryAfter(other) = History(other)
                            /\ GetOr(rm'.active_rooms, other, << >>)
                                 = GetOr(rm.active_rooms, other, << >>)]_vars

\* C26: a create_room whose provider call did not leave the room at the
\* provider (the call failed, and not because the room already exists) fails
\* and registers no participant and no room record.
C26_OtherProviderFailuresSurface ==
    [][(call'.op = "create_room" /\ call'.args[1] \notin provider_rooms')
          => /\ call'.err # "none"
             /\ call'.value = None
             /\ rm'.room_participants = rm.room_participants
             /\ rm'.active_rooms = rm.active_rooms]_vars

\* C27: join_room never creates a room at the provider; when the provider
\* answers that the room is absent the call fails with the room-not-found
\* error and changes nothing; a join_room that returns has appended exactly
\* one entry, the caller's, to the room's list.
C27_JoinNeverCreates ==
    [][call'.op = "join_room"
          => LET room_name == call'.args[1]
                 participant_name == call'.args[2]
             IN /\ provider_rooms' = provider_rooms
                /\ rm'.active_rooms = rm.active_rooms
                /\ (/\ rm.livekit_api
                    /\ room_name \notin provider_rooms
                    /\ call'.err # "ProviderError")
                     => /\ call'.err = "ValueError: room does not exist"
                        /\ rm' = rm
                /\ call'.err = "none"
                     => /\ room_name \in provider_rooms
                        /\ Len(ParticipantsAfter(room_name))
                             = Len(Participants(room_name)) + 1
                        /\ SubSeq(ParticipantsAfter(room_name), 1,
                                  Len(Participants(room_name)))
                             = Participants(room_name)
                        /\ ParticipantsAfter(room_name)[Len(ParticipantsAfter(room_name))].identity
                             = participant_name
                        /\ \A other \in Rooms \ {room_name} :
                               ParticipantsAfter(other) = Participants(other)]_vars

\* the provider was asked for roomA, which it does not list, and the join
\* failed with the room-not-found error
C27_Witness ==
    /\ call.op = "join_room"
    /\ call.err = "ValueError: room does not exist"
    /\ rm.livekit_api
    /\ "roomA" \notin provider_rooms

\* C28: the token returned by create_room and by join_room grants joining,
\* publishing and subscribing in the named room, and grants room
\* administration and own-metadata update exactly to an agent.
C28_GrantsByRole ==
    (call.op \in {"create_room", "join_room"} /\ call.err = "none")
        => LET grants == call.value.token.grants
           IN /\ grants.room_join
              /\ grants.room = call.args[1]
              /\ grants.can_publish
              /\ grants.can_subscribe
              /\ grants.room_admin = call.value.is_agent
              /\ grants.can_update_own_metadata = call.value.is_agent

\* C29: no room's participant list holds two entries with the same identity.
C29_IdentitiesUnique ==
    \A room_name \in Rooms :
        Cardinality(Identities(Participants(room_name))) = Len(Participants(room_name))

-----------------------------------------------------------------------------
(* Summaries *)

\* C24: without a completion (no OpenAI client, or the call raised) the
\* summary of a non-empty history is: the first message whose speaker is not
\* "agent" in any letter case, then the last message whose speaker is, each cut
\* to its first 100 characters, then the number of messages; a part with no
\* such message is left out, and an empty history gives the fixed text.
C24_FallbackSummary ==
    (/\ call.op = "generate_call_summary"
     /\ (~env.openai \/ call.args[2] = "error"))
        => LET h == call.args[1]
               spk(i) == IF "speaker" \in DOMAIN h[i] THEN h[i].speaker ELSE ""
               txt(i) == IF "message" \in DOMAIN h[i] THEN Chars(h[i].message) ELSE << >>
               cut(chars) == SubSeq(chars, 1, IF Len(chars) > 100 THEN 100 ELSE Len(chars))
               agent == {i \in 1..Len(h) : spk(i) \in {"agent", "Agent", "AGENT"}}
               other == (1..Len(h)) \ agent
               first == CHOOSE i \in other : \A j \in other : i <= j
               last == CHOOSE i \in agent : \A j \in agent : j <= i
           IN IF h = << >>
              THEN call.value = <<"No conversation history available.">>
              ELSE call.value =
                     (IF other # {}
                      THEN <<[label |-> "Caller's main concern", text |-> cut(txt(first))]>>
                      ELSE << >>)
                     \o (IF agent # {}
                         THEN <<[label |-> "Agent's last response", text |-> cut(txt(last))]>>
                         ELSE << >>)
                     \o <<[label |-> "Total messages exchanged", count |-> Len(h)]>>

\* a history of two agent messages was summarised without a completion: the
\* one part of text holds the 100 characters kept of the second message
C24_Witness ==
    /\ call.op = "generate_call_summary"
    /\ ~env.openai
    /\ call.args[1] = <<[speaker |-> "Agent", message |-> "Let me check"],
                        [speaker |-> "AGENT", message |-> LongText]>>
    /\ Len(call.value) = 2
    /\ Len(call.value[1].text) = 100
    /\ call.value[1].text = SubSeq(Chars(LongText), 1, 100)

\* C25: generate_call_summary always returns: the completion when the OpenAI
\* call returned, the fallback summary when there is no client or the call
\* raised; every initiate_transfer therefore gets as far as storing its
\* record, with one of the two as its summary.
C25_SummaryNeverFails ==
    /\ call.op = "generate_call_summary"
         => /\ call.err = "none"
            /\ call.value = IF env.openai /\ call.args[2] = "ok"
                            THEN <<"completion">>
                            ELSE generate_fallback_summary(call.args[1])
    /\ call.op = "initiate_transfer"
         => /\ Known(uuid_count)
            /\ Get(active_transfers, uuid_count).summary
                 \in {<<"completion">>, generate_fallback_summary(History("roomA"))}

\* with a client whose call raised, a transfer out of a room with a history
\* was started and its record carries the fallback summary
C25_Witness ==
    /\ env.openai
    /\ call.op = "initiate_transfer"
    /\ call.err = "none"
    /\ History("roomA") # << >>
    /\ Get(active_transfers, uuid_count).summary = generate_fallback_summary(History("roomA"))

-----------------------------------------------------------------------------
(* The HTTP interface *)

\* C21: GET /api/transfer/debug/active is always answered with the list of
\* the active transfers, the empty list when there is no transfer service,
\* and never with an error.
C21_ActiveTransfersAlwaysListed ==
    (call.op = "GET" /\ call.args[1] = <<"api", "transfer", "debug", "active">>)
        => /\ call.value.status_code = 200
           /\ call.value.body
                = [transfers |-> IF transfer_service
                                 THEN Values(list_active_transfers(active_transfers))
                                 ELSE << >>]

\* C22: a request whose handler needs a service that was not constructed is
\* answered with status 501: the room manager for token/generate,
\* rooms/create, room state, room restore and agents/available; the transfer
\* service for transfer/initiate, transfer/complete and transfer/debug/{id};
\* the telephony service for twilio/dial.
C22_AbsentServiceAnswers501 ==
    /\ (/\ ~env.room_manager
        /\ \/ call.op \in {"POST /api/token/generate", "POST /api/rooms/create",
                            "POST /api/rooms/{room_name}/restore"}
           \/ /\ call.op = "GET"
              /\ call.args[1] \in {<<"api", "agents", "available">>,
                                    <<"api", "rooms", "roomA", "state">>})
         => call.value.status_code = 501
    /\ (/\ ~transfer_service
        /\ \/ call.op \in {"POST /api/transfer/initiate", "POST /api/transfer/complete"}
           \/ /\ call.op = "GET"
              /\ call.args[1] = <<"api", "transfer", "debug", "1">>)
         => call.value.status_code = 501
    /\ (~env.twilio_service /\ call.op = "POST /api/twilio/dial")
         => call.value.status_code = 501

-----------------------------------------------------------------------------
(* The steps of initiate_transfer *)

\* C30: initiate_transfer first tries join_room(to_room, to_agent) and calls
\* create_room only when that join fails; the provisioning ends the call
\* only when both fail; the provisioning registers to_agent in to_room once
\* (one entry appended, by the join or else by the create), the later steps
\* register no agent there, and the caller leaves from_room only in the step
\* that follows the provisioning.
C30_JoinThenCreate ==
    [][run.pc # "idle"
          => LET to_room == run.to_room
                 agent_entry == ParticipantInfo(run.to_agent, TRUE, now)
                 agents(participants) == SelectSeq(participants, LAMBDA p : p.is_agent)
             IN /\ run.pc = "join_agent"
                     => /\ call'.op = "join_room"
                        /\ call'.args = <<to_room, run.to_agent>>
                        /\ IF call'.err = "none"
                           THEN /\ run'.pc = "remove_caller"
                                /\ ParticipantsAfter(to_room)
                                     = Append(Participants(to_room), agent_entry)
                           ELSE /\ run'.pc = "create_agent"
                                /\ rm'.room_participants = rm.room_participants
                /\ run.pc = "create_agent"
                     => IF call'.err = "none"
                        THEN /\ call'.op = "create_room"
                             /\ call'.args = <<to_room, run.to_agent>>
                             /\ run'.pc = "remove_caller"
                             /\ ParticipantsAfter(to_room)
                                  = Append(Participants(to_room), agent_entry)
                        ELSE /\ call'.op = "initiate_transfer"
                             /\ run'.pc = "idle"
                             /\ rm'.room_participants = rm.room_participants
                /\ run.pc \in {"remove_caller", "join_caller"}
                     => agents(ParticipantsAfter(to_room)) = agents(Participants(to_room))
                /\ (/\ run.caller_name \in Identities(Participants(run.from_room))
                    /\ run.caller_name \notin Identities(ParticipantsAfter(run.from_room)))
                     => run.pc = "remove_caller"]_vars

\* the join of Bob into roomB failed, the create that followed registered
\* him, and Caller1 is still in roomA
C30_Witness ==
    /\ run.pc = "remove_caller"
    /\ call.op = "create_room"
    /\ call.err = "none"
    /\ InRoom("roomB", "Bob", TRUE)
    /\ InRoom("roomA", "Caller1", FALSE)

\* C31: when initiate_transfer raises, the caller gets the exception of the
\* room-manager call that failed; the record stays in the map with status
\* initiated (the summary cannot fail, so the record is always stored by
\* then); and the step that raises leaves every participant list and every
\* history as the earlier steps made them.
C31_RaiseLeavesRecordInitiated ==
    [][(call'.op = "initiate_transfer" /\ call'.err # "none")
          => /\ run.pc \in {"create_agent", "remove_caller", "join_caller"}
             /\ run'.pc = "idle"
             /\ \E out \in Outcomes :
                    call'.err =
                      CASE run.pc = "create_agent"
                             -> create_room(rm, provider_rooms, run.to_room, run.to_agent,
                                            TRUE, now, out).err
                        [] run.pc = "remove_caller"
                             -> remove_participant(rm, provider_rooms, run.from_room,
                                                   run.caller_name, out).err
                        [] run.pc = "join_caller"
                             -> join_room(rm, provider_rooms, run.to_room, run.caller_name,
                                          FALSE, now, out).err
             /\ active_transfers' = active_transfers
             /\ Known(run.transfer_id)
             /\ Status(run.transfer_id) = "initiated"
             /\ rm'.room_participants = rm.room_participants
             /\ rm'.conversation_history = rm.conversation_history]_vars

\* the removal of the caller failed after Bob had been registered in roomB:
\* the call raised, the record is still initiated and Bob is still registered
C31_Witness ==
    /\ call.op = "initiate_transfer"
    /\ call.err = "ProviderError"
    /\ run.pc = "idle"
    /\ Status(uuid_count) = "initiated"
    /\ InRoom("roomB", "Bob", TRUE)
    /\ InRoom("roomA", "Caller1", FALSE)

\* C32: the copy loop of initiate_transfer appends as many messages as
\* from_room held when the loop began, and then the call returns.
C32_CopyAppendsWhatWasThere ==
    run.pc = "copy" => run.index <= run.began

-----------------------------------------------------------------------------
(* initiate_transfer and the operations that run while it waits *)

\* C33: the write of in_progress that ends initiate_transfer leaves a status
\* of cancelled, completed or failed, set meanwhile by cancel_transfer or
\* complete_transfer, as it is.
C33_FinalWriteKeepsTerminalStatus ==
    [][(/\ run.pc = "copy"
        /\ run'.pc = "idle"
        /\ Status(run.transfer_id) \in Terminal)
          => Get(active_transfers', run.transfer_id).status = Status(run.transfer_id)]_vars

\* C38: when initiate_transfer returns, the messages it copied into to_room
\* (roomB, which held none) are the messages the record's summary was made
\* of.
C38_CopiedIsSummarised ==
    (call.op = "initiate_transfer" /\ call.err = "none")
        => Get(active_transfers, call.value).summary
             = generate_fallback_summary(History("roomB"))

-----------------------------------------------------------------------------
(* More on the transfer map and the registry *)

\* C34: the status of every record of the transfer map is one of initiated,
\* in_progress, completed, failed, cancelled.
C34_StatusInEnumeration ==
    \A id \in KeySet(active_transfers) : Status(id) \in Statuses

\* C35: a caller who is in the participant list of from_room when
\* initiate_transfer is called is in the list of from_room or of to_room when
\* the call has returned or raised.
C35_CallerNeverInNeitherRoom ==
    [][(/\ call'.op = "initiate_transfer"
        /\ call'.args[5] \in Identities(Participants(call'.args[1])))
          => call'.args[5] \in Identities(ParticipantsAfter(call'.args[1]))
                                \cup Identities(ParticipantsAfter(call'.args[2]))]_vars

\* C36: a restore_room_state whose blob has a participant entry that cannot
\* be read either reports the failure and leaves the room's record,
\* participants and history as they were, or replaces all three by what the
\* blob holds.
C36_RestoreAllOrNothing ==
    [][call'.op = "restore_room_state"
          => LET room_name == call'.args[1]
                 state == call'.args[2]
                 data == GetOr(state, "participants", << >>)
             IN (\E i \in 1..Len(data) : ~WellFormed(data[i]))
                  => \/ /\ call'.err # "none"
                        /\ rm' = rm
                     \/ /\ GetOr(rm'.active_rooms, room_name, << >>)
                             = GetOr(state, "room_info", << >>)
                        /\ HistoryAfter(room_name)
                             = GetOr(state, "conversation_history", << >>)
                        /\ Len(ParticipantsAfter(room_name)) = Len(data)
                        /\ \A i \in 1..Len(data) :
                               ParticipantsAfter(room_name)[i].identity = Get(data[i], "name")]_vars

-----------------------------------------------------------------------------
(* Snapshots restored into the registry they were taken from *)

RoundTripRooms == {"agent-room-bob", "roomA"}

NextRoundTrip ==
    \/ \E r \in RoundTripRooms, p \in {"Bob", "Caller1"} : CreateRoom(r, p, "ok")
    \/ \E r \in RoundTripRooms, p \in {"Bob", "Caller1"} : JoinRoom(r, p, "ok")
    \/ \E r \in RoundTripRooms, p \in {"Bob", "Caller1"} : RemoveParticipant(r, p, "ok")
    \/ \E r \in RoundTripRooms : AddConversationMessage(r, "Caller", "My order is late")
    \/ \E r \in RoundTripRooms : RestoreRoomState(r, RoomInfoBlob)
    \/ \E r \in RoundTripRooms : RestoreRoomState(r, get_room_state(rm, r))

SpecRoundTrip == Init /\ [][NextRoundTrip]_vars

\* C37: restoring a room's own snapshot leaves its participant list, its
\* history and the list of available agents as they were, and restoring that
\* snapshot into a fresh registry gives the same participant list and history.
C37_RoundTrip ==
    [][\A R \in RoundTripRooms :
          /\ call'.op = "restore_room_state"
          /\ call'.args = <<R, get_room_state(rm, R)>>
          => /\ ParticipantsAfter(R) = Participants(R)
             /\ HistoryAfter(R) = History(R)
             /\ get_available_agents(rm') = get_available_agents(rm)
             /\ LET fresh == restore_room_state(RoomManagerInit, R, get_room_state(rm, R))
                IN /\ GetOr(fresh.room_participants, R, << >>) = Participants(R)
                   /\ GetOr(fresh.conversation_history, R, << >>) = History(R)]_vars

-----------------------------------------------------------------------------
(* Completions that arrive after the transfer has ended *)

\* roomA with its agent and its caller, a transfer that is cancelled or
\* completed, and the completions that follow
NextStale ==
    \/ \E out \in Outcomes : CreateRoom("roomA", "Alice", out)
    \/ \E out \in Outcomes : JoinRoom("roomA", "Caller1", out)
    \/ \E outs \in OutcomeVectors : InitiateTransfer("roomA", "roomB", "Alice", "Bob", "Caller1", outs)
    \/ \E id \in TransferIds : CancelTransfer(id)
    \/ \E id \in TransferIds, t \in Rooms, out \in Outcomes : CompleteTransfer(id, "roomA", t, out)

SpecStale == Init /\ [][NextStale]_vars

\* C39: a complete_transfer on a record whose status is already completed,
\* failed or cancelled leaves the participant lists of all rooms as they were.
C39_StaleCompletionKeepsParticipants ==
    [][/\ call'.op = "complete_transfer"
       /\ Known(call'.args[1])
       /\ Status(call'.args[1]) \in Terminal
       => rm'.room_participants = rm.room_participants]_vars

=============================================================================
